---- MODULE Spec2Model ----
(***************************************************************************)
(* Model of the interrupt-driven keyboard input pipeline of the kernel:    *)
(* the scancode decoder / line editor (module 4/interrupts.c) and the     *)
(* command dispatcher it hands the finished line to (module 4/shell.c).    *)
(*                                                                         *)
(* Characters are their ASCII codes, C strings are the bytes of an array   *)
(* up to the first NUL, and the flags are C ints (0 or 1).                 *)
(***************************************************************************)
EXTENDS Integers, Sequences, FiniteSets, TLC

(***************************************************************************)
(* Program constants.                                                      *)
(***************************************************************************)
INPUT_BUFFER_SIZE == 256
MAX_ARGS == 16

\* Scancodes the decoder names in its case labels (set 1, make codes).
KEY_LSHIFT == 42
KEY_RSHIFT == 54
KEY_CTRL == 29
KEY_ALT == 56
KEY_CAPS == 58
KEY_BACKSPACE == 14
KEY_ENTER == 28
VGA_WIDTH == 80
VGA_HEIGHT == 25
RELEASE_BIT == 128

(***************************************************************************)
(* Bounds of the model.                                                    *)
(***************************************************************************)
\* Scancode bytes fed to the decoder in one behaviour of Spec.
MaxEvents == 4
\* Scancode bytes fed to the decoder in one behaviour of SpecStroke.
MaxStrokeEvents == 2

(***************************************************************************)
(* ASCII.                                                                  *)
(***************************************************************************)
Ascii ==
  <<" ", "!", "\"", "#", "$", "%", "&", "'", "(", ")", "*", "+", ",", "-",
    ".", "/", "0", "1", "2", "3", "4", "5", "6", "7", "8", "9", ":", ";",
    "<", "=", ">", "?", "@", "A", "B", "C", "D", "E", "F", "G", "H", "I",
    "J", "K", "L", "M", "N", "O", "P", "Q", "R", "S", "T", "U", "V", "W",
    "X", "Y", "Z", "[", "\\", "]", "^", "_", "backtick", "a", "b", "c", "d", "e",
    "f", "g", "h", "i", "j", "k", "l", "m", "n", "o", "p", "q", "r", "s",
    "t", "u", "v", "w", "x", "y", "z", "{", "|", "}", "~">>

\* The code of a printable character, written as a one-character string
\* (the grave accent, which a TLA+ string cannot hold, as "backtick").
Ord(ch) == 31 + (CHOOSE i \in 1..Len(Ascii) : Ascii[i] = ch)

NUL == 0
BS == 8
TAB == 9
NL == 10

\* The bytes of a string literal, given as a tuple of one-character strings.
Str(t) == [i \in 1..Len(t) |-> Ord(t[i])]

(***************************************************************************)
(* The table scancode_to_ascii: index = scancode, 58 entries.              *)
(***************************************************************************)
scancode_to_ascii ==
  <<NUL, NUL, Ord("1"), Ord("2"), Ord("3"), Ord("4"), Ord("5"), Ord("6"),
    Ord("7"), Ord("8"), Ord("9"), Ord("0"), Ord("-"), Ord("="), BS,
    TAB, Ord("q"), Ord("w"), Ord("e"), Ord("r"), Ord("t"), Ord("y"),
    Ord("u"), Ord("i"), Ord("o"), Ord("p"), Ord("["), Ord("]"), NL,
    NUL, Ord("a"), Ord("s"), Ord("d"), Ord("f"), Ord("g"), Ord("h"),
    Ord("j"), Ord("k"), Ord("l"), Ord(";"), Ord("'"), Ord("backtick"),
    NUL, Ord("\\"), Ord("z"), Ord("x"), Ord("c"), Ord("v"), Ord("b"),
    Ord("n"), Ord("m"), Ord(","), Ord("."), Ord("/"), NUL,
    Ord("*"), NUL, Ord(" ")>>

\* sizeof(scancode_to_ascii)
TableSize == Len(scancode_to_ascii)

\* Character literals the code compares against.
ch_a == Ord("a")
ch_z == Ord("z")
ch_A == Ord("A")
ch_Z == Ord("Z")
ch_c == Ord("c")
ch_C == Ord("C")
ch_l == Ord("l")
ch_L == Ord("L")
ch_space == Ord(" ")

(***************************************************************************)
(* State.  The decoder's file-scope variables, and what one run of the     *)
(* handler did (reset at the start of every keyboard event):               *)
(*   sink        characters passed to terminal_putchar, in order           *)
(*   prompts     calls of show_prompt                                      *)
(*   clears      calls of clear_screen                                     *)
(*   dispatched  the C strings process_command was called with             *)
(*   writes      indices of input_buffer the decoder stored to             *)
(*   lookups     indices of scancode_to_ascii the decoder read             *)
(*   cmd         the shell command process_command ran ("none": none)      *)
(*   cmd_writes  indices of input_buffer process_command stored to         *)
(*   cpu         "running", or "halted" / "reset" once a command halted or *)
(*               reset the machine inside the handler                      *)
(* History variables, which no code reads:                                 *)
(*   scancode    the last byte fed to handle_keyboard_input (-1: none)     *)
(*   pre         input_index and the flags before that byte                *)
(*   line        the characters a line editor holds: appended since the    *)
(*               last reset (start, Enter, Ctrl-C), minus those Backspace  *)
(*               removed                                                   *)
(*   run         number of printable key presses typed since the buffer    *)
(*               was empty with nothing but printable presses since (-1    *)
(*               when something else was pressed)                          *)
(*   nEvents     bytes fed so far                                          *)
(*   held        modifier keys that are physically down since the initial  *)
(*               state (kept by SpecStroke only)                           *)
(***************************************************************************)
VARIABLES shift_pressed, caps_lock, ctrl_pressed, alt_pressed,
          input_buffer, input_index,
          sink, prompts, clears, dispatched, writes, lookups, cmd,
          cmd_writes, cpu,
          scancode, pre, line, run, nEvents, held

(***************************************************************************)
(* The machine the decoder runs on, from the boot sector to the idle loop: *)
(*   build     which init_interrupts / init_shell the kernel is linked     *)
(*             with: the stubs of kernel.c or the files of module 4        *)
(*   pc        <<file, line>> of the next instruction or statement         *)
(*   reg       CPU registers: eax, ebp, esp, the segment registers, the    *)
(*             flags IF (IFlag), ZF, CF, cr0, what GDTR and IDTR hold,     *)
(*             and hlt (the CPU sits in a hlt)                             *)
(*   stack     what was pushed and not popped, newest last, each entry     *)
(*             with its width in bytes                                     *)
(*   local     C locals and parameters: i, mask1, mask2, scancode, irq     *)
(*   kbc       the 8042 keyboard controller                                *)
(*   pic       the two 8259 interrupt controllers                          *)
(*   idt, idtp the statics of interrupts.c                                 *)
(* History variables:                                                      *)
(*   io        port operations since boot or since the handler run in      *)
(*             progress was entered; of consecutive reads of the status    *)
(*             port the last one                                           *)
(*   arrived   bytes the keyboard has sent                                 *)
(*   accessed  who read or wrote the keyboard state: "main" flow or        *)
(*             "handler"                                                   *)
(*   entries   gate entries into the keyboard handler not yet left by iret *)
(*   ram       what the BIOS calls and the block copies did so far: disk,  *)
(*             the sector reads the BIOS did, failed, how many reads it    *)
(*             refused, tty, the strings it printed, and copy, the rep     *)
(*             movsb copies                                                *)
(***************************************************************************)
VARIABLES build, pc, reg, stack, local, kbc, pic, idt, idtp,
          io, arrived, accessed, entries, ram

(***************************************************************************)
(* The allocator of kernel.c:                                              *)
(*   heap_current  the static of that name, an address                     *)
(*   refused       history: kmalloc requests refused (NULL returned) by    *)
(*                 the last run of the decoder or of kernel_main           *)
(*   calls         history: the calls SpecAlloc has made of kmalloc and    *)
(*                 kfree, each with its argument and what it did           *)
(***************************************************************************)
VARIABLES heap_current, refused, calls

flags == <<shift_pressed, caps_lock, ctrl_pressed, alt_pressed>>
heap == <<heap_current, refused, calls>>
effects ==
  <<sink, prompts, clears, dispatched, writes, lookups, cmd, cmd_writes, cpu>>
history == <<scancode, pre, line, run, nEvents, held>>
keyboard == <<flags, input_buffer, input_index, effects, history, heap>>
(***************************************************************************)
(* The terminal of kernel.c, where the characters of the sink end up:      *)
(*   terminal_row, terminal_column   the statics of these names            *)
(*   vga       terminal_buffer: the character in each cell written since   *)
(*             the initial state, by index; a cell that is not in the      *)
(*             domain is blank or holds text from before the initial state *)
(*   at        where kernel_main is inside terminal_putchar: the line of   *)
(*             kernel.c it executes next, 0 when it is not inside          *)
(*   arg       the character kernel_main has passed to terminal_putchar    *)
(*   script    what kernel_main still has to print                         *)
(*   written   history: the indexes into terminal_buffer written by the    *)
(*             last call of terminal_putchar by kernel_main, or by the     *)
(*             last run of the keyboard handler                            *)
(*   shown     history: for each run of the handler the scancode, the      *)
(*             cursor at its entry and the indexes it wrote                *)
(*   puts      history: the characters passed to terminal_putchar directly *)
(***************************************************************************)
VARIABLES terminal_row, terminal_column, vga, at, arg, script, written,
          shown, puts

screen == <<terminal_row, terminal_column, vga, at, arg, script, written,
            shown, puts>>
hardware == <<build, pc, reg, stack, local, kbc, pic, idt, idtp,
              io, arrived, accessed, entries, ram>>
machine == <<hardware, screen>>
\* What is in memory: the linked kernel, the blocks moved, the terminal.
image == <<build, ram, screen>>
vars == <<keyboard, machine>>

BufIndex == 0..(INPUT_BUFFER_SIZE - 1)

\* The state a handler run starts from: the variables, with an empty log.
Cur ==
  [shift_pressed |-> shift_pressed, caps_lock |-> caps_lock,
   ctrl_pressed |-> ctrl_pressed, alt_pressed |-> alt_pressed,
   input_buffer |-> input_buffer, input_index |-> input_index,
   sink |-> <<>>, prompts |-> 0, clears |-> 0, dispatched |-> <<>>,
   writes |-> {}, lookups |-> {}, cmd |-> "none", cmd_writes |-> {},
   cpu |-> cpu,
   heap_current |-> heap_current, refused |-> 0]

(***************************************************************************)
(* The output sink and the shell's entry points, as the decoder sees them. *)
(***************************************************************************)
terminal_putchar(s, c) == [s EXCEPT !.sink = Append(@, c)]

terminal_writestring(s, str) == [s EXCEPT !.sink = @ \o str]

\* printf as kernel.c defines it: the format string, written as it is.
printf(s, format) == terminal_writestring(s, format)

show_prompt(s) ==
  LET s1 == printf(s, Str(<<"M", "y", "O", "S">>))
      s2 == printf(s1, Str(<<"$", " ">>))
  IN [s2 EXCEPT !.prompts = @ + 1]

clear_screen(s) == [s EXCEPT !.clears = @ + 1]

\* input_buffer[i] = v.  A store outside the array is recorded in writes and
\* changes no element of the array.
store(s, i, v) ==
  [s EXCEPT !.input_buffer = IF i \in BufIndex THEN [@ EXCEPT ![i] = v] ELSE @,
            !.writes = @ \cup {i}]

(***************************************************************************)
(* shell.c: the dispatcher.  It works on the array it is handed, which is  *)
(* the live input_buffer.                                                  *)
(***************************************************************************)
\* strlen(buf + p).  The decoder terminates the line before the call, so a
\* NUL exists; were there none, the scan would leave the array.
strlen(buf, p) ==
  IF \E i \in p..(INPUT_BUFFER_SIZE - 1) : buf[i] = NUL
  THEN (CHOOSE i \in p..(INPUT_BUFFER_SIZE - 1) :
          buf[i] = NUL /\ \A j \in p..(i - 1) : buf[j] # NUL) - p
  ELSE INPUT_BUFFER_SIZE - p

\* The C string at buf + p.
CStr(buf, p) == [i \in 1..strlen(buf, p) |-> buf[p + i - 1]]

IsBlank(c) == c = ch_space \/ c = TAB

\* Lower-case a byte the way strcmpi does.
fold(c) == IF c >= ch_A /\ c <= ch_Z THEN c + 32 ELSE c

\* The byte of a C string at offset i (1-based), NUL at its end.
At(str, i) == IF i <= Len(str) THEN str[i] ELSE NUL

RECURSIVE strcmpi_from(_, _, _)
strcmpi_from(str1, str2, i) ==
  IF At(str1, i) # NUL /\ At(str2, i) # NUL
  THEN IF fold(At(str1, i)) # fold(At(str2, i))
       THEN fold(At(str1, i)) - fold(At(str2, i))
       ELSE strcmpi_from(str1, str2, i + 1)
  ELSE fold(At(str1, i)) - fold(At(str2, i))

strcmpi(str1, str2) == strcmpi_from(str1, str2, 1)

\* The loop that removes trailing whitespace: while (end > input && ...).
RECURSIVE trim_trailing(_, _)
trim_trailing(buf, end) ==
  IF end > 0 /\ (buf[end] = ch_space \/ buf[end] = TAB \/ buf[end] = NL)
  THEN trim_trailing([buf EXCEPT ![end] = NUL], end - 1)
  ELSE buf

\* First index at or after p whose byte is not a blank.
SkipBlanks(buf, p) ==
  CHOOSE i \in p..(INPUT_BUFFER_SIZE - 1) :
    ~IsBlank(buf[i]) /\ \A j \in p..(i - 1) : IsBlank(buf[j])

\* First index at or after p whose byte ends an argument.
EndOfArg(buf, p) ==
  CHOOSE i \in p..(INPUT_BUFFER_SIZE - 1) :
    /\ (buf[i] = NUL \/ IsBlank(buf[i]))
    /\ \A j \in p..(i - 1) : ~(buf[j] = NUL \/ IsBlank(buf[j]))

\* tokenize_command from position current with the arguments found so far
\* (args: the offsets the pointers args[0..] hold).
RECURSIVE tokenize_from(_, _, _)
tokenize_from(buf, current, args) ==
  IF buf[current] = NUL \/ Len(args) >= MAX_ARGS - 1
  THEN [buf |-> buf, args |-> args]
  ELSE LET start == SkipBlanks(buf, current)
       IN IF buf[start] = NUL
          THEN [buf |-> buf, args |-> args]
          ELSE LET end == EndOfArg(buf, start)
               IN IF buf[end] # NUL
                  THEN tokenize_from([buf EXCEPT ![end] = NUL], end + 1,
                                     Append(args, start))
                  ELSE tokenize_from(buf, end, Append(args, start))

tokenize_command(buf) == tokenize_from(buf, 0, <<>>)

\* The built-in command names, in the order process_command tests them.
Commands ==
  <<"help", "clear", "echo", "meminfo", "memtest", "color", "about",
    "panic", "reboot", "shutdown">>

CommandName ==
  [help |-> Str(<<"h", "e", "l", "p">>),
   clear |-> Str(<<"c", "l", "e", "a", "r">>),
   echo |-> Str(<<"e", "c", "h", "o">>),
   meminfo |-> Str(<<"m", "e", "m", "i", "n", "f", "o">>),
   memtest |-> Str(<<"m", "e", "m", "t", "e", "s", "t">>),
   color |-> Str(<<"c", "o", "l", "o", "r">>),
   about |-> Str(<<"a", "b", "o", "u", "t">>),
   panic |-> Str(<<"p", "a", "n", "i", "c">>),
   reboot |-> Str(<<"r", "e", "b", "o", "o", "t">>),
   shutdown |-> Str(<<"s", "h", "u", "t", "d", "o", "w", "n">>)]

\* The if / else-if chain over strcmpi(args[0], ...): the first name that
\* matches, "unknown" when none does.
select_command(arg0) ==
  IF \E k \in 1..Len(Commands) : strcmpi(arg0, CommandName[Commands[k]]) = 0
  THEN Commands[CHOOSE k \in 1..Len(Commands) :
                  /\ strcmpi(arg0, CommandName[Commands[k]]) = 0
                  /\ \A j \in 1..(k - 1) :
                       strcmpi(arg0, CommandName[Commands[j]]) # 0]
  ELSE "unknown"

\* What is left of the machine when the command is done: cmd_panic ends in
\* kernel_panic's hlt loop and cmd_shutdown in cli; hlt, both with interrupts
\* off (the handler runs behind an interrupt gate); cmd_reboot resets the CPU.
cpu_after(c) ==
  IF c \in {"panic", "shutdown"} THEN "halted"
  ELSE IF c = "reboot" THEN "reset"
  ELSE "running"

(***************************************************************************)
(* kernel.c: the allocator.  Addresses are integers; NULL is 0.            *)
(***************************************************************************)
heap_start == 2097152
heap_end == 4194304
NULL == 0

\* A uint32_t can exceed what an integer holds here, so a size_t is kept as
\* its two 16-bit halves <<high, low>>; size_t(n) is n as a size_t.  Pointers
\* into the first two gigabytes are numbers.
size_t(n) == <<n \div 65536, n % 65536>>
Number(w) == w[1] * 65536 + w[2]

\* a + b and a > b on uint32_t: the sum is taken modulo 2^32, which is what
\* the 32-bit build computes for a pointer plus a size_t.
Add32(a, b) ==
  LET low == a[2] + b[2]
      high == a[1] + b[1] + low \div 65536
  IN <<high % 65536, low % 65536>>
Above32(a, b) == a[1] > b[1] \/ (a[1] = b[1] /\ a[2] > b[2])

\* Faulty variant of kmalloc: heap_current is not aligned after a request.
kmalloc_unaligned(hc, size) ==
  LET sum == Add32(size_t(hc), size)
  IN IF Above32(sum, size_t(heap_end))
     THEN [ptr |-> NULL, heap_current |-> hc]
     ELSE [ptr |-> hc, heap_current |-> Number(sum)]

\* kmalloc(size) with heap_current = hc: the pointer returned and the new
\* heap_current.
kmalloc(hc, size) ==
  LET sum == Add32(size_t(hc), size)
  IN IF Above32(sum, size_t(heap_end))
     THEN [ptr |-> NULL, heap_current |-> hc]
     ELSE [ptr |-> hc,
           heap_current |-> IF Number(sum) % 4 # 0
                            THEN Number(sum) + (4 - (Number(sum) % 4))
                            ELSE Number(sum)]

\* kfree(ptr) with heap_current = hc: the new heap_current.
kfree(hc, ptr) == hc

\* ptr = kmalloc(size) in the state s of a handler run.
allocate(s, size) ==
  [s EXCEPT !.heap_current = kmalloc(@, size_t(size)).heap_current,
            !.refused = IF kmalloc(s.heap_current, size_t(size)).ptr = NULL
                        THEN @ + 1 ELSE @]

\* shell.c: cmd_memtest.  It returns early when the first request fails;
\* what it prints is not carried.
cmd_memtest(s) ==
  IF kmalloc(s.heap_current, size_t(100)).ptr = NULL
  THEN allocate(s, 100)
  ELSE allocate(allocate(allocate(allocate(allocate(s, 100), 50), 200), 75),
                1024)

\* Faulty variant of kernel_panic: it returns after the banner.
kernel_panic_returns(s, message) ==
  LET s1 == printf(s, <<NL>> \o Str(<<"K", "E", "R", "N", "E", "L", " ", "P",
                                      "A", "N", "I", "C", ":", " ">>))
      s2 == printf(s1, message)
  IN printf(s2, <<NL>> \o Str(<<"S", "y", "s", "t", "e", "m", " ", "h",
                                "a", "l", "t", "e", "d", ".">>) \o <<NL>>)

\* kernel.c: kernel_panic(message) paints the banner and stays in its hlt
\* loop.  printf writes its format string as it is.
kernel_panic(s, message) ==
  LET s1 == printf(s, <<NL>> \o Str(<<"K", "E", "R", "N", "E", "L", " ", "P",
                                      "A", "N", "I", "C", ":", " ">>))
      s2 == printf(s1, message)
      s3 == printf(s2, <<NL>> \o Str(<<"S", "y", "s", "t", "e", "m", " ", "h",
                                       "a", "l", "t", "e", "d", ".">>) \o <<NL>>)
  IN [s3 EXCEPT !.cpu = "halted"]

\* cmd_panic: the message is args[1] if there is one.
cmd_panic(s, buf, args) ==
  IF Len(args) > 1
  THEN kernel_panic(s, CStr(buf, args[2]))
  ELSE kernel_panic(s, Str(<<"U", "s", "e", "r", "-", "r", "e", "q", "u", "e",
                            "s", "t", "e", "d", " ", "p", "a", "n", "i", "c",
                            " ", "f", "o", "r", " ", "t", "e", "s", "t", "i",
                            "n", "g">>))

\* Faulty variant of process_command: the test arg_count == 0 is missing, and
\* a line of blanks goes into the chain of comparisons.
process_command_no_arg_check(s) ==
  LET input == s.input_buffer
      called == [s EXCEPT !.dispatched = Append(@, CStr(input, 0))]
  IN IF input[0] = NUL
     THEN called
     ELSE LET trimmed == trim_trailing(input, strlen(input, 0) - 1)
          IN IF trimmed[0] = NUL
             THEN [called EXCEPT !.input_buffer = trimmed,
                     !.cmd_writes = {i \in BufIndex : trimmed[i] # input[i]}]
             ELSE LET tok == tokenize_command(trimmed)
                      done == [called EXCEPT !.input_buffer = tok.buf,
                                 !.cmd_writes =
                                   {i \in BufIndex : tok.buf[i] # input[i]}]
                  IN IF Len(tok.args) = 0
                     THEN [done EXCEPT !.cmd = "unknown"]
                     ELSE LET c == select_command(CStr(tok.buf, tok.args[1]))
                          IN IF c = "panic"
                             THEN cmd_panic([done EXCEPT !.cmd = c], tok.buf,
                                            tok.args)
                             ELSE IF c = "memtest"
                             THEN cmd_memtest([done EXCEPT !.cmd = c])
                             ELSE [done EXCEPT !.cmd = c,
                                               !.cpu = cpu_after(c)]

\* process_command(input_buffer).
process_command(s) ==
  LET input == s.input_buffer
      called == [s EXCEPT !.dispatched = Append(@, CStr(input, 0))]
  IN IF input[0] = NUL
     THEN called
     ELSE LET trimmed == trim_trailing(input, strlen(input, 0) - 1)
          IN IF trimmed[0] = NUL
             THEN [called EXCEPT !.input_buffer = trimmed,
                     !.cmd_writes = {i \in BufIndex : trimmed[i] # input[i]}]
             ELSE LET tok == tokenize_command(trimmed)
                      done == [called EXCEPT !.input_buffer = tok.buf,
                                 !.cmd_writes =
                                   {i \in BufIndex : tok.buf[i] # input[i]}]
                  IN IF Len(tok.args) = 0
                     THEN done
                     ELSE LET c == select_command(CStr(tok.buf, tok.args[1]))
                          IN IF c = "panic"
                             THEN cmd_panic([done EXCEPT !.cmd = c], tok.buf,
                                            tok.args)
                             ELSE IF c = "memtest"
                             THEN cmd_memtest([done EXCEPT !.cmd = c])
                             ELSE [done EXCEPT !.cmd = c,
                                               !.cpu = cpu_after(c)]

(***************************************************************************)
(* interrupts.c: the scancode decoder and line editor.                     *)
(***************************************************************************)
to_upper(c) == IF c >= ch_a /\ c <= ch_z THEN c - ch_a + ch_A ELSE c

\* The case labels of the switch taken while Shift is held: key -> symbol.
ShiftCases ==
  { <<Ord("1"), Ord("!")>>, <<Ord("2"), Ord("@")>>, <<Ord("3"), Ord("#")>>,
    <<Ord("4"), Ord("$")>>, <<Ord("5"), Ord("%")>>, <<Ord("6"), Ord("^")>>,
    <<Ord("7"), Ord("&")>>, <<Ord("8"), Ord("*")>>, <<Ord("9"), Ord("(")>>,
    <<Ord("0"), Ord(")")>>, <<Ord("-"), Ord("_")>>, <<Ord("="), Ord("+")>>,
    <<Ord("["), Ord("{")>>, <<Ord("]"), Ord("}")>>, <<Ord(";"), Ord(":")>>,
    <<Ord("'"), Ord("\"")>>, <<Ord("backtick"), Ord("~")>>,
    <<Ord("\\"), Ord("|")>>, <<Ord(","), Ord("<")>>, <<Ord("."), Ord(">")>>,
    <<Ord("/"), Ord("?")>> }

\* Faulty variant of shift_switch: the case labels '6' and '7' give each other's
\* symbol.
shift_switch_swapped(c) ==
  IF c = Ord("6") THEN Ord("&")
  ELSE IF c = Ord("7") THEN Ord("^")
  ELSE IF \E p \in ShiftCases : p[1] = c
       THEN (CHOOSE p \in ShiftCases : p[1] = c)[2]
       ELSE IF c >= ch_a /\ c <= ch_z THEN to_upper(c) ELSE c

\* switch (c) under if (shift_pressed): a listed key gives its symbol, the
\* default branch upper-cases a lower-case letter.
shift_switch(c) ==
  IF \E p \in ShiftCases : p[1] = c
  THEN (CHOOSE p \in ShiftCases : p[1] = c)[2]
  ELSE IF c >= ch_a /\ c <= ch_z THEN to_upper(c) ELSE c

\* "Handle shift and caps lock": the character a key's table entry c becomes.
apply_modifiers(s, c) ==
  IF s.shift_pressed # 0
  THEN shift_switch(c)
  ELSE IF s.caps_lock # 0 /\ c >= ch_a /\ c <= ch_z
       THEN to_upper(c)
       ELSE c

\* Faulty variant of key_release: a release that is none of the three cases falls
\* into the Shift case.
key_release_clears_shift(s, code) ==
  IF code = KEY_CTRL THEN [s EXCEPT !.ctrl_pressed = 0]
  ELSE IF code = KEY_ALT THEN [s EXCEPT !.alt_pressed = 0]
  ELSE [s EXCEPT !.shift_pressed = 0]

\* Faulty variant of key_release: the release of Caps Lock clears caps_lock.
key_release_resets_caps(s, code) ==
  IF code = KEY_LSHIFT \/ code = KEY_RSHIFT THEN [s EXCEPT !.shift_pressed = 0]
  ELSE IF code = KEY_CTRL THEN [s EXCEPT !.ctrl_pressed = 0]
  ELSE IF code = KEY_ALT THEN [s EXCEPT !.alt_pressed = 0]
  ELSE IF code = KEY_CAPS THEN [s EXCEPT !.caps_lock = 0]
  ELSE s

\* The key-release branch, entered with the release bit already removed.
key_release(s, code) ==
  IF code = KEY_LSHIFT \/ code = KEY_RSHIFT THEN [s EXCEPT !.shift_pressed = 0]
  ELSE IF code = KEY_CTRL THEN [s EXCEPT !.ctrl_pressed = 0]
  ELSE IF code = KEY_ALT THEN [s EXCEPT !.alt_pressed = 0]
  ELSE s

\* Faulty variant of backspace: the test input_index > 0 is missing.
backspace_unguarded(s) ==
  LET s1 == [s EXCEPT !.input_index = @ - 1]
      s2 == store(s1, s1.input_index, NUL)
      s3 == terminal_putchar(s2, BS)
      s4 == terminal_putchar(s3, ch_space)
  IN terminal_putchar(s4, BS)

\* Faulty variant of backspace: the cursor is not moved back over the blank.
backspace_two_characters(s) ==
  IF s.input_index > 0
  THEN LET s1 == [s EXCEPT !.input_index = @ - 1]
           s2 == store(s1, s1.input_index, NUL)
           s3 == terminal_putchar(s2, BS)
       IN terminal_putchar(s3, ch_space)
  ELSE s

\* case 0x0E: Backspace.
backspace(s) ==
  IF s.input_index > 0
  THEN LET s1 == [s EXCEPT !.input_index = @ - 1]
           s2 == store(s1, s1.input_index, NUL)
           s3 == terminal_putchar(s2, BS)
           s4 == terminal_putchar(s3, ch_space)
       IN terminal_putchar(s4, BS)
  ELSE s

\* Faulty variant of enter: the line is not terminated before it is dispatched.
enter_no_terminator(s) ==
  LET s2 == terminal_putchar(s, NL)
      s3 == process_command(s2)
  IN IF s3.cpu = "running"
     THEN show_prompt([s3 EXCEPT !.input_index = 0])
     ELSE s3

\* Faulty variant of enter: input_index is not reset after the dispatch.
enter_no_reset(s) ==
  LET s1 == store(s, s.input_index, NUL)
      s2 == terminal_putchar(s1, NL)
      s3 == process_command(s2)
  IN IF s3.cpu = "running" THEN show_prompt(s3) ELSE s3

\* case 0x1C: Enter.  A command that halts or resets the machine never
\* returns, and the two statements after the call do not run.
enter(s) ==
  LET s1 == store(s, s.input_index, NUL)
      s2 == terminal_putchar(s1, NL)
      s3 == process_command(s2)
  IN IF s3.cpu = "running"
     THEN show_prompt([s3 EXCEPT !.input_index = 0])
     ELSE s3

\* Faulty variant of ctrl_c: input_index is not reset.
ctrl_c_keeps_index(s) ==
  show_prompt(terminal_writestring(s, <<Ord("^"), ch_C, NL>>))

\* case 'c': case 'C': under if (ctrl_pressed).
ctrl_c(s) ==
  LET s1 == terminal_writestring(s, <<Ord("^"), ch_C, NL>>)
  IN show_prompt([s1 EXCEPT !.input_index = 0])

\* case 'l': case 'L': under if (ctrl_pressed).
ctrl_l(s) == show_prompt(clear_screen(s))

\* Faulty variant of append_char: the bound is off by one (<= for <).
append_char_off_by_one(s, c) ==
  IF s.input_index <= INPUT_BUFFER_SIZE - 1
  THEN LET s1 == store(s, s.input_index, c)
       IN terminal_putchar([s1 EXCEPT !.input_index = @ + 1], c)
  ELSE s

\* Faulty variant of append_char: the index is incremented before the store.
append_char_preincrement(s, c) ==
  IF s.input_index < INPUT_BUFFER_SIZE - 1
  THEN LET s1 == [s EXCEPT !.input_index = @ + 1]
       IN terminal_putchar(store(s1, s1.input_index, c), c)
  ELSE s

\* Faulty variant of append_char: the echo is outside the bounds check.
append_char_echo_unguarded(s, c) ==
  IF s.input_index < INPUT_BUFFER_SIZE - 1
  THEN LET s1 == store(s, s.input_index, c)
       IN terminal_putchar([s1 EXCEPT !.input_index = @ + 1], c)
  ELSE terminal_putchar(s, c)

\* "Add character to input buffer".
append_char(s, c) ==
  IF s.input_index < INPUT_BUFFER_SIZE - 1
  THEN LET s1 == store(s, s.input_index, c)
       IN terminal_putchar([s1 EXCEPT !.input_index = @ + 1], c)
  ELSE s

\* c = scancode_to_ascii[code]: the read is recorded in lookups.
lookup(s, code) == [s EXCEPT !.lookups = @ \cup {code}]

\* Faulty variant of key_char: the table is read without the test
\* scancode < sizeof(scancode_to_ascii); beyond the table it finds a 0.
key_char_unbounded(s, code) ==
  LET c0 == At(scancode_to_ascii, code + 1)
      s0 == lookup(s, code)
  IN IF c0 # NUL
     THEN LET c == apply_modifiers(s0, c0)
          IN IF s0.ctrl_pressed # 0 /\ (c = ch_c \/ c = ch_C) THEN ctrl_c(s0)
             ELSE IF s0.ctrl_pressed # 0 /\ (c = ch_l \/ c = ch_L)
                  THEN ctrl_l(s0)
                  ELSE append_char(s0, c)
     ELSE s0

\* "Convert scancode to ASCII" and what follows it, for a key press that is
\* none of the special keys.
key_char(s, code) ==
  IF code < TableSize
  THEN LET c0 == scancode_to_ascii[code + 1]
           s0 == lookup(s, code)
       IN IF c0 # NUL
          THEN LET c == apply_modifiers(s0, c0)
               IN IF s0.ctrl_pressed # 0 /\ (c = ch_c \/ c = ch_C)
                  THEN ctrl_c(s0)
                  ELSE IF s0.ctrl_pressed # 0 /\ (c = ch_l \/ c = ch_L)
                       THEN ctrl_l(s0)
                       ELSE append_char(s0, c)
          ELSE s0
  ELSE s

\* The switch over the special keys of a key press.
key_press(s, code) ==
  IF code = KEY_LSHIFT \/ code = KEY_RSHIFT THEN [s EXCEPT !.shift_pressed = 1]
  ELSE IF code = KEY_CTRL THEN [s EXCEPT !.ctrl_pressed = 1]
  ELSE IF code = KEY_ALT THEN [s EXCEPT !.alt_pressed = 1]
  ELSE IF code = KEY_CAPS
       THEN [s EXCEPT !.caps_lock = IF @ = 0 THEN 1 ELSE 0]
  ELSE IF code = KEY_BACKSPACE THEN backspace(s)
  ELSE IF code = KEY_ENTER THEN enter(s)
  ELSE key_char(s, code)

\* handle_keyboard_input(scancode), scancode a byte.
handle_keyboard_input(s, sc) ==
  IF (sc \div RELEASE_BIT) % 2 = 1
  THEN key_release(s, sc % RELEASE_BIT)
  ELSE key_press(s, sc)

(***************************************************************************)
(* Keyboard events, named from the keyboard's side: what the byte is,      *)
(* before the decoder looks at it.                                         *)
(***************************************************************************)
Bytes == 0..255
IsRelease(sc) == sc >= RELEASE_BIT
ModifierCodes == {KEY_LSHIFT, KEY_RSHIFT, KEY_CTRL, KEY_ALT, KEY_CAPS}

\* The scancode of the key whose table entry is the character c.
ScanOf(c) == (CHOOSE i \in 1..TableSize : scancode_to_ascii[i] = c) - 1

KEY_C == ScanOf(ch_c)
KEY_L == ScanOf(ch_l)

\* A press of a key that produces a character.
IsPrintable(sc) ==
  /\ sc \in 0..(TableSize - 1)
  /\ sc \notin ModifierCodes \cup {KEY_BACKSPACE, KEY_ENTER}
  /\ scancode_to_ascii[sc + 1] # NUL

IsCtrlC(sc) == sc = KEY_C /\ ctrl_pressed # 0
IsCtrlL(sc) == sc = KEY_L /\ ctrl_pressed # 0

\* A printable press that is not one of the two Ctrl combinations.
IsTyped(sc) == IsPrintable(sc) /\ ~IsCtrlC(sc) /\ ~IsCtrlL(sc)

\* The character the decoder makes of a printable press in the current state.
KeyChar(sc) == apply_modifiers(Cur, scancode_to_ascii[sc + 1])

\* The history variable line after the byte sc.
NextLine(sc) ==
  IF sc = KEY_ENTER \/ IsCtrlC(sc) THEN <<>>
  ELSE IF sc = KEY_BACKSPACE
       THEN IF line = <<>> THEN <<>> ELSE SubSeq(line, 1, Len(line) - 1)
  ELSE IF IsTyped(sc) /\ Len(line) < INPUT_BUFFER_SIZE - 1
       THEN Append(line, KeyChar(sc))
  ELSE line

\* The history variable run after the byte sc, which left input_index at idx.
NextRun(sc, idx) ==
  IF IsTyped(sc)
  THEN IF run >= 0 /\ run + 1 < INPUT_BUFFER_SIZE THEN run + 1 ELSE -1
  ELSE IF IsRelease(sc) /\ (sc % RELEASE_BIT) \notin ModifierCodes THEN run
  ELSE IF idx = 0 THEN 0
  ELSE -1

(***************************************************************************)
(* Constants of the boot path and of the interrupt system.                 *)
(***************************************************************************)
IDT_SIZE == 256
KEYBOARD_IRQ == 1
PIC1_COMMAND == 32
PIC1_DATA == 33
PIC2_COMMAND == 160
PIC2_DATA == 161
PIC_EOI == 32
KBC_DATA == 96
KBC_STATUS == 100
CODE_SEG == 8
DATA_SEG == 16
KEYBOARD_VECTOR == 33
STACK_TOP == 589824
kernel_start == 1048576

\* Number of keyboard bytes that arrive while the kernel boots (SpecBoot) and
\* once it has booted (SpecEoi).
MaxBootKeys == 2
MaxIrqKeys == 2

\* The address the linker gives keyboard_interrupt_wrapper: somewhere in the
\* kernel image, with both halves of the offset non-zero.
WrapperAddress == kernel_start + 65536 + 564

(***************************************************************************)
(* Bit arithmetic on non-negative integers.                                *)
(***************************************************************************)
Bit(x, b) == (x \div (2 ^ b)) % 2

RECURSIVE BitOr(_, _)
BitOr(x, m) ==
  IF x = 0 THEN m
  ELSE IF m = 0 THEN x
  ELSE (IF x % 2 = 1 \/ m % 2 = 1 THEN 1 ELSE 0)
       + 2 * BitOr(x \div 2, m \div 2)

RECURSIVE BitAnd(_, _)
BitAnd(x, m) ==
  IF x = 0 \/ m = 0 THEN 0
  ELSE (IF x % 2 = 1 /\ m % 2 = 1 THEN 1 ELSE 0)
       + 2 * BitAnd(x \div 2, m \div 2)

(***************************************************************************)
(* CPU registers.  al, ah and ax are parts of eax; sp is the low half of   *)
(* esp.                                                                    *)
(***************************************************************************)
GetReg(rg, r) ==
  IF r = "al" THEN rg.eax % 256
  ELSE IF r = "ah" THEN (rg.eax \div 256) % 256
  ELSE IF r = "ax" THEN rg.eax % 65536
  ELSE IF r = "sp" THEN rg.esp % 65536
  ELSE IF r = "bx" THEN rg.ebx % 65536
  ELSE IF r = "cl" THEN rg.ecx % 256
  ELSE IF r = "ch" THEN (rg.ecx \div 256) % 256
  ELSE IF r = "dl" THEN rg.edx % 256
  ELSE IF r = "dh" THEN (rg.edx \div 256) % 256
  ELSE rg[r]

SetReg(rg, r, v) ==
  IF r = "al" THEN [rg EXCEPT !.eax = @ - (@ % 256) + (v % 256)]
  ELSE IF r = "ah"
       THEN [rg EXCEPT !.eax = @ - ((@ \div 256) % 256) * 256 + (v % 256) * 256]
  ELSE IF r = "ax" THEN [rg EXCEPT !.eax = @ - (@ % 65536) + (v % 65536)]
  ELSE IF r = "sp" THEN [rg EXCEPT !.esp = @ - (@ % 65536) + (v % 65536)]
  ELSE IF r = "si" THEN [rg EXCEPT !.esi = v]
  ELSE IF r = "bx" THEN [rg EXCEPT !.ebx = @ - (@ % 65536) + (v % 65536)]
  ELSE IF r = "cl" THEN [rg EXCEPT !.ecx = @ - (@ % 256) + (v % 256)]
  ELSE IF r = "ch"
       THEN [rg EXCEPT !.ecx = @ - ((@ \div 256) % 256) * 256 + (v % 256) * 256]
  ELSE IF r = "dl" THEN [rg EXCEPT !.edx = @ - (@ % 256) + (v % 256)]
  ELSE IF r = "dh"
       THEN [rg EXCEPT !.edx = @ - ((@ \div 256) % 256) * 256 + (v % 256) * 256]
  ELSE IF r \in {"eax", "ebx", "ecx", "edx", "esi", "edi", "ebp", "esp", "cr0"}
       THEN [rg EXCEPT ![r] = v]
  ELSE [rg EXCEPT ![r] = v % 65536]

\* The stack pointer moved by d bytes: sp in 16-bit code, esp in 32-bit code.
\* (The 32-bit registers hold values far below 2^31 on every path, and are
\* kept as plain integers.)
MoveSp(rg, d) ==
  IF rg.cr0 % 2 = 1 /\ rg.cs = CODE_SEG
  THEN [rg EXCEPT !.esp = @ + d]
  ELSE [rg EXCEPT !.esp = (@ - (@ % 65536)) + (((@ % 65536) + d) % 65536)]

\* The CPU runs 32-bit protected-mode code: PE is set and CS was reloaded by
\* the far jump.
Protected(rg) == rg.cr0 % 2 = 1 /\ rg.cs = CODE_SEG

\* Bytes a call, a push of a general register set or an interrupt pushes.
OperandSize(rg) == IF Protected(rg) THEN 4 ELSE 2

RECURSIVE StackBytes(_)
StackBytes(st) ==
  IF st = <<>> THEN 0 ELSE st[1].w + StackBytes(Tail(st))

(***************************************************************************)
(* The 8042 keyboard controller.  A byte written to port 0x64 or 0x60 sits *)
(* in the input buffer (status bit 1) until the controller takes it; a     *)
(* byte written while the buffer is full is lost.                          *)
(***************************************************************************)
kbc_status(k) == k.obf + 2 * k.ibf

kbc_write(k, port, v) ==
  IF k.ibf = 1 THEN k
  ELSE [k EXCEPT !.ibf = 1, !.pending = <<port, v>>]

kbc_read_data(k) == [k EXCEPT !.obf = 0]

\* The controller takes the byte in its input buffer: commands 0xAD / 0xAE
\* disable / enable the keyboard, 0xD0 puts the output port into the output
\* buffer, 0xD1 makes the next data byte the output port, whose bit 1 is the
\* A20 gate.
kbc_take(k) ==
  LET port == k.pending[1]
      v == k.pending[2]
      free == [k EXCEPT !.ibf = 0, !.pending = <<>>]
  IN IF port = KBC_STATUS
     THEN IF v = 173 THEN [free EXCEPT !.enabled = 0]
          ELSE IF v = 174 THEN [free EXCEPT !.enabled = 1]
          ELSE IF v = 208 THEN [free EXCEPT !.out = k.outport, !.obf = 1]
          ELSE IF v = 209 THEN [free EXCEPT !.cmd = "D1"]
          ELSE free
     ELSE IF k.cmd = "D1"
          THEN [free EXCEPT !.outport = v, !.a20 = Bit(v, 1), !.cmd = "none"]
          ELSE free

(***************************************************************************)
(* The 8259 interrupt controllers.  icw is 0 when the controller is        *)
(* initialised and otherwise the initialisation word it expects next.      *)
(***************************************************************************)
PicOf(port) ==
  IF port \in {PIC1_COMMAND, PIC1_DATA} THEN "master" ELSE "slave"

LowestBit(x) == CHOOSE b \in 0..7 : Bit(x, b) = 1 /\ \A c \in 0..(b - 1) : Bit(x, c) = 0

pic_write_command(p, v) ==
  IF Bit(v, 4) = 1
  THEN [p EXCEPT !.icw = 2, !.icw4 = Bit(v, 0), !.mask = 0, !.irr = 0, !.isr = 0]
  ELSE IF v = PIC_EOI /\ p.isr # 0
       THEN [p EXCEPT !.isr = @ - 2 ^ LowestBit(@)]
       ELSE p

pic_write_data(p, v) ==
  IF p.icw = 2 THEN [p EXCEPT !.base = v - (v % 8), !.icw = 3]
  ELSE IF p.icw = 3 THEN [p EXCEPT !.icw = IF p.icw4 = 1 THEN 4 ELSE 0]
  ELSE IF p.icw = 4 THEN [p EXCEPT !.icw = 0]
  ELSE [p EXCEPT !.mask = v]

\* The controller requests the interrupt of line irq from the CPU.
pic_requests(p, irq) ==
  /\ p.icw = 0
  /\ Bit(p.irr, irq) = 1
  /\ Bit(p.mask, irq) = 0
  /\ \A b \in 0..irq : Bit(p.isr, b) = 0

pic_acknowledge(p, irq) ==
  [p EXCEPT !.irr = @ - 2 ^ irq, !.isr = @ + 2 ^ irq]

(***************************************************************************)
(* Port input and output as the devices see it.                            *)
(***************************************************************************)
IsPicPort(port) == port \in {PIC1_COMMAND, PIC1_DATA, PIC2_COMMAND, PIC2_DATA}

port_value(port) ==
  IF port = KBC_STATUS THEN kbc_status(kbc)
  ELSE IF port = KBC_DATA THEN kbc.out
  ELSE IF port \in {PIC1_DATA, PIC2_DATA} THEN pic[PicOf(port)].mask
  ELSE 255

kbc_after_in(port) == IF port = KBC_DATA THEN kbc_read_data(kbc) ELSE kbc

kbc_after_out(port, v) ==
  IF port \in {KBC_STATUS, KBC_DATA} THEN kbc_write(kbc, port, v) ELSE kbc

pic_after_out(port, v) ==
  IF port \in {PIC1_COMMAND, PIC2_COMMAND}
  THEN [pic EXCEPT ![PicOf(port)] = pic_write_command(@, v)]
  ELSE IF port \in {PIC1_DATA, PIC2_DATA}
       THEN [pic EXCEPT ![PicOf(port)] = pic_write_data(@, v)]
       ELSE pic

\* The history variable io after one more operation.
Logged(e) ==
  IF /\ e[1] = "in" /\ e[2] = KBC_STATUS /\ io # <<>>
     /\ io[Len(io)][1] = "in" /\ io[Len(io)][2] = KBC_STATUS
  THEN [io EXCEPT ![Len(io)] = e]
  ELSE Append(io, e)

(***************************************************************************)
(* interrupts.c: the IDT.                                                  *)
(***************************************************************************)
ZeroGate ==
  [offset_low |-> 0, selector |-> 0, zero |-> 0, type_attr |-> 0,
   offset_high |-> 0]

\* Faulty variant of set_idt_entry: the type and attribute byte is not stored.
set_idt_entry_keeps_type(table, num, handler, selector, gate_flags) ==
  [table EXCEPT ![num] =
     [offset_low |-> handler % 65536,
      selector |-> selector % 65536,
      zero |-> 0,
      type_attr |-> table[num].type_attr,
      offset_high |-> (handler \div 65536) % 65536]]

\* Faulty variant of set_idt_entry: the high half is taken without the shift.
set_idt_entry_unshifted(table, num, handler, selector, gate_flags) ==
  [table EXCEPT ![num] =
     [offset_low |-> handler % 65536,
      selector |-> selector % 65536,
      zero |-> 0,
      type_attr |-> gate_flags % 256,
      offset_high |-> handler % 65536]]

\* set_idt_entry(num, handler, selector, flags) on the table.
set_idt_entry(table, num, handler, selector, gate_flags) ==
  [table EXCEPT ![num] =
     [offset_low |-> handler % 65536,
      selector |-> selector % 65536,
      zero |-> 0,
      type_attr |-> gate_flags % 256,
      offset_high |-> (handler \div 65536) % 65536]]

GateOffset(g) == g.offset_high * 65536 + g.offset_low
GatePresent(g) == Bit(g.type_attr, 7) = 1

\* Faulty variant of GateClearsIF: every gate is taken as a trap gate.
gate_is_trap(g) == FALSE

\* Type 0xE of the low nibble is the 32-bit interrupt gate, which clears IF
\* on entry; type 0xF, the trap gate, leaves it.
GateClearsIF(g) == g.type_attr % 16 = 14

(***************************************************************************)
(* The programs, line by line: each table maps the source line of an       *)
(* instruction or statement to what it does.  Left out are instructions    *)
(* that only load registers the model does not carry (bx, cx, dx, si, di   *)
(* and their parts).  A "stmt" is code without effect on the state of the  *)
(* model: a loop that writes video memory ("vga"), the copy of the kernel  *)
(* image, a C statement that prints or uses the allocator; it carries the  *)
(* set of keyboard variables the statement reads or writes.                *)
(***************************************************************************)
B(l) == <<"boot.asm", l>>
A(l) == <<"aux-boot.asm", l>>
K(l) == <<"kernel.c", l>>
I(l) == <<"interrupts.c", l>>
S(l) == <<"shell.c", l>>

\* boot.asm: start, up to the call of enable_a20.
boot_start ==
     (10 :> <<"cli">>)
  @@ (11 :> <<"mov", "ax", 0>>)
  @@ (12 :> <<"movr", "ds", "ax">>)
  @@ (13 :> <<"movr", "es", "ax">>)
  @@ (14 :> <<"movr", "ss", "ax">>)
  @@ (15 :> <<"mov", "sp", 31744>>)
  @@ (16 :> <<"sti">>)
  @@ (19 :> <<"mov", "si", "loading_msg">>)
  @@ (20 :> <<"call", B(67)>>)
  @@ (24 :> <<"mov", "ax", 4096>>)
  @@ (25 :> <<"movr", "es", "ax">>)
  @@ (26 :> <<"mov", "bx", 0>>)
  @@ (28 :> <<"mov", "ah", 2>>)
  @@ (29 :> <<"mov", "al", 18>>)
  @@ (30 :> <<"mov", "ch", 0>>)
  @@ (31 :> <<"mov", "cl", 2>>)
  @@ (32 :> <<"mov", "dh", 0>>)
  @@ (33 :> <<"mov", "dl", 0>>)
  @@ (35 :> <<"int", 19>>)
  @@ (36 :> <<"jc", B(57)>>)
  @@ (39 :> <<"mov", "si", "success_msg">>)
  @@ (40 :> <<"call", B(67)>>)
  @@ (43 :> <<"call", B(75)>>)

\* Faulty variant of boot_switch: the cli before lgdt is missing.
boot_switch_no_cli ==
     (47 :> <<"lgdt", "gdt_descriptor">>)
  @@ (49 :> <<"movr", "eax", "cr0">>)
  @@ (50 :> <<"or", "eax", 1>>)
  @@ (51 :> <<"movr", "cr0", "eax">>)
  @@ (54 :> <<"jmpf", CODE_SEG, B(119)>>)
  @@ (57 :> <<"mov", "si", "error_msg">>)
  @@ (58 :> <<"call", B(67)>>)
  @@ (59 :> <<"hlt">>)

\* boot.asm: the switch to protected mode, and disk_error.
boot_switch ==
     (46 :> <<"cli">>)
  @@ (47 :> <<"lgdt", "gdt_descriptor">>)
  @@ (49 :> <<"movr", "eax", "cr0">>)
  @@ (50 :> <<"or", "eax", 1>>)
  @@ (51 :> <<"movr", "cr0", "eax">>)
  @@ (54 :> <<"jmpf", CODE_SEG, B(119)>>)
  @@ (57 :> <<"mov", "si", "error_msg">>)
  @@ (58 :> <<"call", B(67)>>)
  @@ (59 :> <<"hlt">>)

\* boot.asm: print_string (the teletype loop as one BIOS call).
boot_print_string ==
     (67 :> <<"int", 16>>)
  @@ (70 :> <<"ret">>)

\* Faulty variant of boot_enable_a20: the output-port byte is written without
\* polling the status port first.
boot_enable_a20_unpolled ==
     (75 :> <<"call", B(104)>>)
  @@ (76 :> <<"mov", "al", 173>>)
  @@ (77 :> <<"out", KBC_STATUS, "al">>)
  @@ (79 :> <<"call", B(104)>>)
  @@ (80 :> <<"mov", "al", 208>>)
  @@ (81 :> <<"out", KBC_STATUS, "al">>)
  @@ (83 :> <<"call", B(110)>>)
  @@ (84 :> <<"in", "al", KBC_DATA>>)
  @@ (85 :> <<"push", "ax">>)
  @@ (87 :> <<"call", B(104)>>)
  @@ (88 :> <<"mov", "al", 209>>)
  @@ (89 :> <<"out", KBC_STATUS, "al">>)
  @@ (92 :> <<"pop", "ax">>)
  @@ (93 :> <<"or", "al", 2>>)
  @@ (94 :> <<"out", KBC_DATA, "al">>)
  @@ (96 :> <<"call", B(104)>>)
  @@ (97 :> <<"mov", "al", 174>>)
  @@ (98 :> <<"out", KBC_STATUS, "al">>)
  @@ (100 :> <<"call", B(104)>>)
  @@ (101 :> <<"ret">>)
  @@ (104 :> <<"in", "al", KBC_STATUS>>)
  @@ (105 :> <<"test", "al", 2>>)
  @@ (106 :> <<"jnz", B(104)>>)
  @@ (107 :> <<"ret">>)
  @@ (110 :> <<"in", "al", KBC_STATUS>>)
  @@ (111 :> <<"test", "al", 1>>)
  @@ (112 :> <<"jz", B(110)>>)
  @@ (113 :> <<"ret">>)

\* Faulty variant of boot_enable_a20: it returns without waiting for the
\* 8042 to take the last command.
boot_enable_a20_returns_early ==
     (75 :> <<"call", B(104)>>)
  @@ (76 :> <<"mov", "al", 173>>)
  @@ (77 :> <<"out", KBC_STATUS, "al">>)
  @@ (79 :> <<"call", B(104)>>)
  @@ (80 :> <<"mov", "al", 208>>)
  @@ (81 :> <<"out", KBC_STATUS, "al">>)
  @@ (83 :> <<"call", B(110)>>)
  @@ (84 :> <<"in", "al", KBC_DATA>>)
  @@ (85 :> <<"push", "ax">>)
  @@ (87 :> <<"call", B(104)>>)
  @@ (88 :> <<"mov", "al", 209>>)
  @@ (89 :> <<"out", KBC_STATUS, "al">>)
  @@ (91 :> <<"call", B(104)>>)
  @@ (92 :> <<"pop", "ax">>)
  @@ (93 :> <<"or", "al", 2>>)
  @@ (94 :> <<"out", KBC_DATA, "al">>)
  @@ (96 :> <<"call", B(104)>>)
  @@ (97 :> <<"mov", "al", 174>>)
  @@ (98 :> <<"out", KBC_STATUS, "al">>)
  @@ (100 :> <<"jmp", B(101)>>)
  @@ (101 :> <<"ret">>)
  @@ (104 :> <<"in", "al", KBC_STATUS>>)
  @@ (105 :> <<"test", "al", 2>>)
  @@ (106 :> <<"jnz", B(104)>>)
  @@ (107 :> <<"ret">>)
  @@ (110 :> <<"in", "al", KBC_STATUS>>)
  @@ (111 :> <<"test", "al", 1>>)
  @@ (112 :> <<"jz", B(110)>>)
  @@ (113 :> <<"ret">>)

\* boot.asm: enable_a20 with .wait_8042 and .wait_8042_data.
boot_enable_a20 ==
     (75 :> <<"call", B(104)>>)
  @@ (76 :> <<"mov", "al", 173>>)
  @@ (77 :> <<"out", KBC_STATUS, "al">>)
  @@ (79 :> <<"call", B(104)>>)
  @@ (80 :> <<"mov", "al", 208>>)
  @@ (81 :> <<"out", KBC_STATUS, "al">>)
  @@ (83 :> <<"call", B(110)>>)
  @@ (84 :> <<"in", "al", KBC_DATA>>)
  @@ (85 :> <<"push", "ax">>)
  @@ (87 :> <<"call", B(104)>>)
  @@ (88 :> <<"mov", "al", 209>>)
  @@ (89 :> <<"out", KBC_STATUS, "al">>)
  @@ (91 :> <<"call", B(104)>>)
  @@ (92 :> <<"pop", "ax">>)
  @@ (93 :> <<"or", "al", 2>>)
  @@ (94 :> <<"out", KBC_DATA, "al">>)
  @@ (96 :> <<"call", B(104)>>)
  @@ (97 :> <<"mov", "al", 174>>)
  @@ (98 :> <<"out", KBC_STATUS, "al">>)
  @@ (100 :> <<"call", B(104)>>)
  @@ (101 :> <<"ret">>)
  @@ (104 :> <<"in", "al", KBC_STATUS>>)
  @@ (105 :> <<"test", "al", 2>>)
  @@ (106 :> <<"jnz", B(104)>>)
  @@ (107 :> <<"ret">>)
  @@ (110 :> <<"in", "al", KBC_STATUS>>)
  @@ (111 :> <<"test", "al", 1>>)
  @@ (112 :> <<"jz", B(110)>>)
  @@ (113 :> <<"ret">>)

\* Faulty variant of boot_gdt: the data descriptor is not marked present.
boot_gdt_data_absent ==
  << 0, 0, 0, 0, 0, 0, 0, 0,
     255, 255, 0, 0, 0, 154, 207, 0,
     255, 255, 0, 0, 0, 18, 207, 0 >>

\* boot.asm: the bytes from gdt_start to gdt_end.
boot_gdt ==
  << 0, 0, 0, 0, 0, 0, 0, 0,
     255, 255, 0, 0, 0, 154, 207, 0,
     255, 255, 0, 0, 0, 146, 207, 0 >>

\* aux-boot.asm: the bytes from gdt_start to gdt_end.
aux_gdt ==
  << 0, 0, 0, 0, 0, 0, 0, 0,
     255, 255, 0, 0, 0, 154, 207, 0,
     255, 255, 0, 0, 0, 146, 207, 0 >>

\* gdt_descriptor of the given file: dw gdt_end - gdt_start - 1, dd gdt_start.
gdt_descriptor(f) ==
  LET gdt == IF f = "boot.asm" THEN boot_gdt ELSE aux_gdt
  IN [size |-> Len(gdt) - 1, address |-> gdt]

\* Faulty variant of boot_protected_mode: the copy stops one sector short.
boot_protected_mode_short_copy ==
     (119 :> <<"mov", "ax", DATA_SEG>>)
  @@ (120 :> <<"movr", "ds", "ax">>)
  @@ (121 :> <<"movr", "es", "ax">>)
  @@ (122 :> <<"movr", "fs", "ax">>)
  @@ (123 :> <<"movr", "gs", "ax">>)
  @@ (124 :> <<"movr", "ss", "ax">>)
  @@ (127 :> <<"mov", "esp", STACK_TOP>>)
  @@ (130 :> <<"mov", "esi", 65536>>)
  @@ (131 :> <<"mov", "edi", kernel_start>>)
  @@ (132 :> <<"mov", "ecx", 8704>>)
  @@ (133 :> <<"rep_movsb">>)
  @@ (136 :> <<"jmp", K(292)>>)

\* boot.asm: protected_mode.
boot_protected_mode ==
     (119 :> <<"mov", "ax", DATA_SEG>>)
  @@ (120 :> <<"movr", "ds", "ax">>)
  @@ (121 :> <<"movr", "es", "ax">>)
  @@ (122 :> <<"movr", "fs", "ax">>)
  @@ (123 :> <<"movr", "gs", "ax">>)
  @@ (124 :> <<"movr", "ss", "ax">>)
  @@ (127 :> <<"mov", "esp", STACK_TOP>>)
  @@ (130 :> <<"mov", "esi", 65536>>)
  @@ (131 :> <<"mov", "edi", kernel_start>>)
  @@ (132 :> <<"mov", "ecx", 9216>>)
  @@ (133 :> <<"rep_movsb">>)
  @@ (136 :> <<"jmp", K(292)>>)

boot_asm ==
  boot_start @@ boot_switch @@ boot_print_string @@ boot_enable_a20
  @@ boot_protected_mode

\* aux-boot.asm: start.
aux_start ==
     (8 :> <<"mov", "ax", 0>>)
  @@ (9 :> <<"movr", "ds", "ax">>)
  @@ (10 :> <<"movr", "es", "ax">>)
  @@ (11 :> <<"movr", "fs", "ax">>)
  @@ (12 :> <<"movr", "gs", "ax">>)
  @@ (13 :> <<"movr", "ss", "ax">>)
  @@ (14 :> <<"mov", "sp", 31744>>)
  @@ (17 :> <<"call", A(34)>>)
  @@ (20 :> <<"call", A(50)>>)
  @@ (25 :> <<"call", A(50)>>)
  @@ (27 :> <<"call", A(73)>>)
  @@ (28 :> <<"call", A(79)>>)
  @@ (30 :> <<"jmp", A(30)>>)

\* aux-boot.asm: clear_screen and print_string_color.
aux_vga ==
     (34 :> <<"pusha">>)
  @@ (35 :> <<"mov", "ax", 47104>>)
  @@ (36 :> <<"movr", "es", "ax">>)
  @@ (38 :> <<"mov", "ax", 1824>>)
  @@ (41 :> <<"stmt", "vga", {}>>)
  @@ (44 :> <<"popa">>)
  @@ (45 :> <<"ret">>)
  @@ (50 :> <<"pusha">>)
  @@ (51 :> <<"mov", "ax", 47104>>)
  @@ (52 :> <<"movr", "es", "ax">>)
  @@ (56 :> <<"stmt", "vga", {}>>)
  @@ (68 :> <<"popa">>)
  @@ (69 :> <<"ret">>)

\* aux-boot.asm: load_gdt and switch_to_protected_mode.
aux_switch ==
     (73 :> <<"lgdt", "gdt_descriptor">>)
  @@ (74 :> <<"ret">>)
  @@ (79 :> <<"cli">>)
  @@ (82 :> <<"call", A(95)>>)
  @@ (85 :> <<"movr", "eax", "cr0">>)
  @@ (86 :> <<"or", "eax", 1>>)
  @@ (87 :> <<"movr", "cr0", "eax">>)
  @@ (90 :> <<"jmpf", CODE_SEG, A(181)>>)

\* aux-boot.asm: enable_a20 with wait_8042 and wait_8042_data.
aux_enable_a20 ==
     (95 :> <<"call", A(124)>>)
  @@ (96 :> <<"mov", "al", 173>>)
  @@ (97 :> <<"out", KBC_STATUS, "al">>)
  @@ (99 :> <<"call", A(124)>>)
  @@ (100 :> <<"mov", "al", 208>>)
  @@ (101 :> <<"out", KBC_STATUS, "al">>)
  @@ (103 :> <<"call", A(130)>>)
  @@ (104 :> <<"in", "al", KBC_DATA>>)
  @@ (105 :> <<"push", "eax">>)
  @@ (107 :> <<"call", A(124)>>)
  @@ (108 :> <<"mov", "al", 209>>)
  @@ (109 :> <<"out", KBC_STATUS, "al">>)
  @@ (111 :> <<"call", A(124)>>)
  @@ (112 :> <<"pop", "eax">>)
  @@ (113 :> <<"or", "al", 2>>)
  @@ (114 :> <<"out", KBC_DATA, "al">>)
  @@ (116 :> <<"call", A(124)>>)
  @@ (117 :> <<"mov", "al", 174>>)
  @@ (118 :> <<"out", KBC_STATUS, "al">>)
  @@ (120 :> <<"call", A(124)>>)
  @@ (121 :> <<"ret">>)
  @@ (124 :> <<"in", "al", KBC_STATUS>>)
  @@ (125 :> <<"test", "al", 2>>)
  @@ (126 :> <<"jnz", A(124)>>)
  @@ (127 :> <<"ret">>)
  @@ (130 :> <<"in", "al", KBC_STATUS>>)
  @@ (131 :> <<"test", "al", 1>>)
  @@ (132 :> <<"jz", A(130)>>)
  @@ (133 :> <<"ret">>)

\* Faulty variant of aux_protected_mode_start: clear_screen_32 is called
\* before the stack pointer is set.
aux_protected_mode_call_first ==
     (181 :> <<"mov", "ax", DATA_SEG>>)
  @@ (182 :> <<"movr", "ds", "ax">>)
  @@ (183 :> <<"movr", "ss", "ax">>)
  @@ (184 :> <<"movr", "es", "ax">>)
  @@ (185 :> <<"movr", "fs", "ax">>)
  @@ (186 :> <<"movr", "gs", "ax">>)
  @@ (189 :> <<"call", A(203)>>)
  @@ (190 :> <<"mov", "ebp", STACK_TOP>>)
  @@ (193 :> <<"movr", "esp", "ebp">>)
  @@ (196 :> <<"call", A(214)>>)
  @@ (199 :> <<"jmp", A(199)>>)

\* aux-boot.asm: protected_mode_start.
aux_protected_mode_start ==
     (181 :> <<"mov", "ax", DATA_SEG>>)
  @@ (182 :> <<"movr", "ds", "ax">>)
  @@ (183 :> <<"movr", "ss", "ax">>)
  @@ (184 :> <<"movr", "es", "ax">>)
  @@ (185 :> <<"movr", "fs", "ax">>)
  @@ (186 :> <<"movr", "gs", "ax">>)
  @@ (189 :> <<"mov", "ebp", STACK_TOP>>)
  @@ (190 :> <<"movr", "esp", "ebp">>)
  @@ (193 :> <<"call", A(203)>>)
  @@ (196 :> <<"call", A(214)>>)
  @@ (199 :> <<"jmp", A(199)>>)

\* aux-boot.asm: clear_screen_32 and print_success_message.
aux_vga_32 ==
     (203 :> <<"stmt", "vga", {}>>)
  @@ (210 :> <<"ret">>)
  @@ (214 :> <<"stmt", "vga", {}>>)
  @@ (229 :> <<"ret">>)

aux_boot_asm ==
  aux_start @@ aux_vga @@ aux_switch @@ aux_enable_a20
  @@ aux_protected_mode_start @@ aux_vga_32

\* kernel.c: the stubs of init_interrupts and init_shell.
kernel_stubs ==
     (281 :> <<"stmt", "printf", {}>>)
  @@ (282 :> <<"ret">>)
  @@ (286 :> <<"stmt", "printf", {}>>)
  @@ (287 :> <<"ret">>)

\* Faulty variant of kernel_main: the idle loop polls is_input_empty().
kernel_main_polls ==
     (292 :> <<"stmt", "terminal_initialize", {}>>)
  @@ (295 :> <<"stmt", "terminal_setcolor", {}>>)
  @@ (296 :> <<"stmt", "printf", {}>>)
  @@ (297 :> <<"stmt", "printf", {}>>)
  @@ (299 :> <<"stmt", "terminal_setcolor", {}>>)
  @@ (300 :> <<"stmt", "printf", {}>>)
  @@ (301 :> <<"stmt", "printf", {}>>)
  @@ (302 :> <<"stmt", "printf", {}>>)
  @@ (305 :> <<"call_linked", "init_interrupts">>)
  @@ (308 :> <<"stmt", "printf", {}>>)
  @@ (309 :> <<"kmalloc", 100>>)
  @@ (310 :> <<"stmt", "printf", {}>>)
  @@ (319 :> <<"stmt", "print_memory_info", {}>>)
  @@ (321 :> <<"stmt", "printf", {}>>)
  @@ (324 :> <<"call_linked", "init_shell">>)
  @@ (326 :> <<"stmt", "printf", {}>>)
  @@ (329 :> <<"stmt", "printf", {}>>)
  @@ (330 :> <<"stmt", "is_input_empty", {"input_index"}>>)
  @@ (331 :> <<"hlt">>)
  @@ (332 :> <<"jmp", K(331)>>)

\* kernel.c: kernel_main.
kernel_main ==
     (292 :> <<"stmt", "terminal_initialize", {}>>)
  @@ (295 :> <<"stmt", "terminal_setcolor", {}>>)
  @@ (296 :> <<"stmt", "printf", {}>>)
  @@ (297 :> <<"stmt", "printf", {}>>)
  @@ (299 :> <<"stmt", "terminal_setcolor", {}>>)
  @@ (300 :> <<"stmt", "printf", {}>>)
  @@ (301 :> <<"stmt", "printf", {}>>)
  @@ (302 :> <<"stmt", "printf", {}>>)
  @@ (305 :> <<"call_linked", "init_interrupts">>)
  @@ (308 :> <<"stmt", "printf", {}>>)
  @@ (309 :> <<"kmalloc", 100>>)
  @@ (310 :> <<"stmt", "printf", {}>>)
  @@ (319 :> <<"stmt", "print_memory_info", {}>>)
  @@ (321 :> <<"stmt", "printf", {}>>)
  @@ (324 :> <<"call_linked", "init_shell">>)
  @@ (326 :> <<"stmt", "printf", {}>>)
  @@ (329 :> <<"stmt", "printf", {}>>)
  @@ (331 :> <<"hlt">>)
  @@ (332 :> <<"jmp", K(331)>>)

kernel_c == kernel_stubs @@ kernel_main

\* Faulty variant of init_pic: the master's mask byte is written before its
\* ICW4.
init_pic_mask_early ==
     (100 :> <<"inb", "mask1", PIC1_DATA>>)
  @@ (101 :> <<"inb", "mask2", PIC2_DATA>>)
  @@ (104 :> <<"outb", PIC1_COMMAND, 17>>)
  @@ (105 :> <<"outb", PIC2_COMMAND, 17>>)
  @@ (108 :> <<"outb", PIC1_DATA, 32>>)
  @@ (109 :> <<"outb", PIC2_DATA, 40>>)
  @@ (112 :> <<"outb", PIC1_DATA, 4>>)
  @@ (113 :> <<"outb", PIC2_DATA, 2>>)
  @@ (116 :> <<"outb", PIC1_DATA, 255>>)
  @@ (117 :> <<"outb", PIC2_DATA, 1>>)
  @@ (120 :> <<"outb", PIC1_DATA, 1>>)
  @@ (121 :> <<"outb", PIC2_DATA, 255>>)
  @@ (124 :> <<"outb", PIC1_DATA, 253>>)
  @@ (125 :> <<"ret">>)

\* interrupts.c: init_pic.
init_pic ==
     (100 :> <<"inb", "mask1", PIC1_DATA>>)
  @@ (101 :> <<"inb", "mask2", PIC2_DATA>>)
  @@ (104 :> <<"outb", PIC1_COMMAND, 17>>)
  @@ (105 :> <<"outb", PIC2_COMMAND, 17>>)
  @@ (108 :> <<"outb", PIC1_DATA, 32>>)
  @@ (109 :> <<"outb", PIC2_DATA, 40>>)
  @@ (112 :> <<"outb", PIC1_DATA, 4>>)
  @@ (113 :> <<"outb", PIC2_DATA, 2>>)
  @@ (116 :> <<"outb", PIC1_DATA, 1>>)
  @@ (117 :> <<"outb", PIC2_DATA, 1>>)
  @@ (120 :> <<"outb", PIC1_DATA, 255>>)
  @@ (121 :> <<"outb", PIC2_DATA, 255>>)
  @@ (124 :> <<"outb", PIC1_DATA, 253>>)
  @@ (125 :> <<"ret">>)

\* interrupts.c: send_eoi.
send_eoi ==
     (129 :> <<"if_ge", "irq", 8, I(132)>>)
  @@ (130 :> <<"outb", PIC2_COMMAND, PIC_EOI>>)
  @@ (132 :> <<"outb", PIC1_COMMAND, PIC_EOI>>)
  @@ (133 :> <<"ret">>)

\* interrupts.c: keyboard_interrupt_wrapper.
keyboard_interrupt_wrapper ==
     (139 :> <<"pusha">>)
  @@ (140 :> <<"call", I(184)>>)
  @@ (141 :> <<"popa">>)
  @@ (142 :> <<"iret">>)

\* interrupts.c: init_idt.
init_idt ==
     (151 :> <<"set_idtp">>)
  @@ (155 :> <<"for_init", "i", 0>>)
  @@ (156 :> <<"set_idt_entry_at", "i", 0, 0, 0>>)
  @@ (157 :> <<"for_next", "i", IDT_SIZE, I(156)>>)
  @@ (160 :> <<"set_idt_entry", KEYBOARD_VECTOR, WrapperAddress, CODE_SEG, 142>>)
  @@ (163 :> <<"lidt", "idtp">>)
  @@ (164 :> <<"ret">>)

\* Faulty variant of init_interrupts: sti comes first.
init_interrupts_sti_first ==
     (168 :> <<"stmt", "printf", {}>>)
  @@ (171 :> <<"sti">>)
  @@ (174 :> <<"call", I(151)>>)
  @@ (177 :> <<"call", I(100)>>)
  @@ (179 :> <<"stmt", "printf", {}>>)
  @@ (180 :> <<"ret">>)

\* interrupts.c: init_interrupts.
init_interrupts ==
     (168 :> <<"stmt", "printf", {}>>)
  @@ (171 :> <<"call", I(151)>>)
  @@ (174 :> <<"call", I(100)>>)
  @@ (177 :> <<"sti">>)
  @@ (179 :> <<"stmt", "printf", {}>>)
  @@ (180 :> <<"ret">>)

\* Faulty variant of keyboard_handler: the end of interrupt is sent for
\* IRQ 9.
keyboard_handler_eoi_irq9 ==
     (184 :> <<"inb", "scancode", KBC_DATA>>)
  @@ (185 :> <<"handle_keyboard_input", "scancode">>)
  @@ (186 :> <<"call", I(129), "irq", 9>>)
  @@ (187 :> <<"ret">>)

\* Faulty variant of keyboard_handler: it returns without send_eoi.
keyboard_handler_no_eoi ==
     (184 :> <<"inb", "scancode", KBC_DATA>>)
  @@ (185 :> <<"handle_keyboard_input", "scancode">>)
  @@ (186 :> <<"jmp", I(187)>>)
  @@ (187 :> <<"ret">>)

\* interrupts.c: keyboard_handler.
keyboard_handler ==
     (184 :> <<"inb", "scancode", KBC_DATA>>)
  @@ (185 :> <<"handle_keyboard_input", "scancode">>)
  @@ (186 :> <<"call", I(129), "irq", KEYBOARD_IRQ>>)
  @@ (187 :> <<"ret">>)

interrupts_c ==
  init_pic @@ send_eoi @@ keyboard_interrupt_wrapper @@ init_idt
  @@ init_interrupts @@ keyboard_handler

\* shell.c: init_shell.
init_shell ==
     (371 :> <<"stmt", "printf", {}>>)
  @@ (372 :> <<"stmt", "printf", {}>>)
  @@ (373 :> <<"stmt", "show_prompt", {}>>)
  @@ (374 :> <<"ret">>)

shell_c == init_shell

Code ==
  [f \in {"boot.asm", "aux-boot.asm", "kernel.c", "interrupts.c", "shell.c"} |->
     IF f = "boot.asm" THEN boot_asm
     ELSE IF f = "aux-boot.asm" THEN aux_boot_asm
     ELSE IF f = "kernel.c" THEN kernel_c
     ELSE IF f = "interrupts.c" THEN interrupts_c
     ELSE shell_c]

\* The instruction at p, and the place of the one that follows it in the file.
InstrAt(p) == Code[p[1]][p[2]]

Succ(p) ==
  <<p[1], CHOOSE l \in DOMAIN Code[p[1]] :
            /\ l > p[2]
            /\ \A m \in DOMAIN Code[p[1]] : m > p[2] => l <= m>>

Instr == InstrAt(pc)

\* Which definition of a symbol the kernel image holds.
Builds == {"kernel.c", "module 4"}

Linked(b, symbol) ==
  IF b = "kernel.c"
  THEN IF symbol = "init_interrupts" THEN K(281) ELSE K(286)
  ELSE IF symbol = "init_interrupts" THEN I(168) ELSE S(371)

\* The code a gate's offset points at: the keyboard wrapper at its address,
\* nothing the kernel put there elsewhere.
CodeAt(offset) == IF offset = WrapperAddress THEN I(139) ELSE <<"nowhere", 0>>

KernelFiles == {"kernel.c", "interrupts.c", "shell.c"}

\* The handler's call chain is running: a gate entry has not been left yet.
InHandler == entries > 0
Context == IF InHandler THEN "handler" ELSE "main"

(***************************************************************************)
(* The machine when the BIOS hands over to the boot sector, and when the   *)
(* kernel built with module 4 has booted and idles.                        *)
(***************************************************************************)
\* The 8259s as the PC BIOS programs them: vectors 0x08 and 0x70.
BiosPic ==
  [master |-> [icw |-> 0, icw4 |-> 1, base |-> 8, mask |-> 184, irr |-> 0,
               isr |-> 0],
   slave |-> [icw |-> 0, icw4 |-> 1, base |-> 112, mask |-> 143, irr |-> 0,
              isr |-> 0]]

\* Values of the 8042 output port: the A20 gate (bit 1) closed and open, and
\* one with the other bits different.
OutputPorts == {221, 223, 1}

NoLocals == [i |-> 0, mask1 |-> 0, mask2 |-> 0, scancode |-> 0, irq |-> 0]

\* idt lies in memory the boot sector does not clear: before init_idt it is
\* all zero or holds what was there.
StaleGate ==
  [offset_low |-> 65535, selector |-> 65535, zero |-> 255, type_attr |-> 255,
   offset_high |-> 65535]

\* Nothing tracked on the screen, kernel_main outside terminal_putchar with
\* nothing left to print.
BlankScreen ==
  /\ vga = <<>>
  /\ at = 0
  /\ arg = NUL
  /\ script = <<>>
  /\ written = {}
  /\ shown = <<>>
  /\ puts = <<>>

BiosMachine ==
  /\ build \in Builds
  /\ heap_current = heap_start
  /\ refused = 0
  /\ calls = <<>>
  /\ pc \in {B(10), A(8)}
  /\ reg = [eax |-> 0, ebx |-> 0, ecx |-> 0, edx |-> 0, esi |-> 0, edi |-> 0,
            ebp |-> 0, esp |-> 0, cs |-> 0, ds |-> 61440,
            es |-> 61440, fs |-> 61440, gs |-> 61440, ss |-> 61440,
            IFlag |-> 1, ZF |-> 0, CF |-> 0, cr0 |-> 16,
            gdtr |-> "bios", idtr |-> [limit |-> 1023, base |-> "ivt"],
            hlt |-> FALSE]
  /\ stack = <<>>
  /\ local = NoLocals
  /\ \E o \in OutputPorts :
       kbc = [ibf |-> 0, obf |-> 0, out |-> 0, pending |-> <<>>,
              cmd |-> "none", outport |-> o, a20 |-> Bit(o, 1),
              enabled |-> 1]
  /\ pic = BiosPic
  /\ idt \in {[n \in 0..(IDT_SIZE - 1) |-> ZeroGate],
              [n \in 0..(IDT_SIZE - 1) |-> StaleGate]}
  /\ idtp = [limit |-> 0, base |-> "none"]
  /\ io = <<>>
  /\ arrived = 0
  /\ accessed = {}
  /\ entries = 0
  /\ ram = [disk |-> <<>>, copy |-> <<>>, failed |-> 0, tty |-> <<>>]
  /\ terminal_row = 0
  /\ terminal_column = 0
  /\ BlankScreen

\* The machine while kernel_main, with interrupts set up and enabled, is at
\* the line p of kernel.c.
KernelMachine(p) ==
  /\ build = "module 4"
  /\ pc = p
  /\ reg = [eax |-> 16, ebx |-> 0, ecx |-> 0, edx |-> 0,
            esi |-> 65536 + 9216, edi |-> kernel_start + 9216,
            ebp |-> 0, esp |-> STACK_TOP, cs |-> CODE_SEG,
            ds |-> DATA_SEG, es |-> DATA_SEG, fs |-> DATA_SEG,
            gs |-> DATA_SEG, ss |-> DATA_SEG,
            IFlag |-> 1, ZF |-> 1, CF |-> 0, cr0 |-> 17,
            gdtr |-> "gdt_descriptor",
            idtr |-> [limit |-> IDT_SIZE * 8 - 1, base |-> "idt"],
            hlt |-> FALSE]
  /\ stack = <<>>
  /\ local = [NoLocals EXCEPT !.i = IDT_SIZE, !.mask1 = 184, !.mask2 = 143]
  /\ kbc = [ibf |-> 0, obf |-> 0, out |-> 223, pending |-> <<>>,
            cmd |-> "none", outport |-> 223, a20 |-> 1, enabled |-> 1]
  /\ pic = [master |-> [icw |-> 0, icw4 |-> 1, base |-> 32, mask |-> 253,
                        irr |-> 0, isr |-> 0],
            slave |-> [icw |-> 0, icw4 |-> 1, base |-> 40, mask |-> 255,
                       irr |-> 0, isr |-> 0]]
  /\ idt = set_idt_entry([n \in 0..(IDT_SIZE - 1) |-> ZeroGate],
                         KEYBOARD_VECTOR, WrapperAddress, CODE_SEG, 142)
  /\ idtp = [limit |-> IDT_SIZE * 8 - 1, base |-> "idt"]
  /\ io = <<>>
  /\ arrived = 0
  /\ accessed = {}
  /\ entries = 0
  /\ ram = [disk |-> << [drive |-> 0, cylinder |-> 0, head |-> 0,
                         sector |-> 2, count |-> 18, to |-> 65536] >>,
            copy |-> << [from |-> 65536, to |-> kernel_start,
                         bytes |-> 9216, flat |-> TRUE] >>,
            failed |-> 0, tty |-> <<"loading_msg", "success_msg">>]

\* kernel_main is in its idle loop; it has printed its 24 lines.
BootedMachine ==
  /\ KernelMachine(K(331))
  /\ terminal_row = VGA_HEIGHT - 1
  /\ terminal_column = 0
  /\ BlankScreen

\* kernel_main has made its one request, kmalloc(100).
Booted ==
  /\ BootedMachine
  /\ heap_current = kmalloc(heap_start, size_t(100)).heap_current
  /\ refused = 0
  /\ calls = <<>>

(***************************************************************************)
(* Initial states.  The machine has booted, the user has typed the         *)
(* characters of w (lower-case letters, digits, blanks: keys that need no  *)
(* modifier) and then brought the modifiers to f.  input_buffer is static  *)
(* storage: zero past what was typed.                                      *)
(***************************************************************************)
Fill(n) == [i \in 1..n |-> ch_a]

StartLines ==
  { <<>>,
    Str(<<"h", "e", "l", "p">>),
    Str(<<"p", "a", "n", "i", "c">>),
    Str(<<" ", "h", "i", " ">>),
    <<ch_space, TAB>>,
    Fill(INPUT_BUFFER_SIZE - 2),
    Fill(INPUT_BUFFER_SIZE - 1) }

StrokeStartLines == { <<>>, Str(<<"h", "i">>), Fill(INPUT_BUFFER_SIZE - 1) }

NoFlags == [shift_pressed |-> 0, caps_lock |-> 0, ctrl_pressed |-> 0,
            alt_pressed |-> 0]

AllFlags == [shift_pressed : {0, 1}, caps_lock : {0, 1},
             ctrl_pressed : {0, 1}, alt_pressed : {0, 1}]

InitWith(w, f) ==
  /\ shift_pressed = f.shift_pressed
  /\ caps_lock = f.caps_lock
  /\ ctrl_pressed = f.ctrl_pressed
  /\ alt_pressed = f.alt_pressed
  /\ input_buffer = [i \in BufIndex |-> IF i < Len(w) THEN w[i + 1] ELSE NUL]
  /\ input_index = Len(w)
  /\ sink = <<>>
  /\ prompts = 0
  /\ clears = 0
  /\ dispatched = <<>>
  /\ writes = {}
  /\ lookups = {}
  /\ cmd = "none"
  /\ cmd_writes = {}
  /\ cpu = "running"
  /\ scancode = -1
  /\ pre = [input_index |-> Len(w), shift_pressed |-> f.shift_pressed,
            caps_lock |-> f.caps_lock, ctrl_pressed |-> f.ctrl_pressed,
            alt_pressed |-> f.alt_pressed]
  /\ line = w
  /\ run = IF f = NoFlags \/ w = <<>> THEN Len(w) ELSE -1
  /\ nEvents = 0

\* The modifier keys that are down when the flags are f (the left Shift key for
\* shift_pressed; Caps Lock is a toggle and is not held).
HeldFor(f) ==
  {k \in {KEY_LSHIFT, KEY_CTRL, KEY_ALT} :
     \/ k = KEY_LSHIFT /\ f.shift_pressed = 1
     \/ k = KEY_CTRL /\ f.ctrl_pressed = 1
     \/ k = KEY_ALT /\ f.alt_pressed = 1}

Init == \E w \in StartLines : InitWith(w, NoFlags) /\ held = {} /\ Booted

InitStroke ==
  \E w \in StrokeStartLines : \E f \in AllFlags :
    InitWith(w, f) /\ held = HeldFor(f) /\ Booted

(***************************************************************************)
(* The decoder runs on the byte sc to its end.                             *)
(***************************************************************************)
Decode(sc) ==
  \E r \in {handle_keyboard_input(Cur, sc)} :
     /\ cpu = "running"
     /\ shift_pressed' = r.shift_pressed
     /\ caps_lock' = r.caps_lock
     /\ ctrl_pressed' = r.ctrl_pressed
     /\ alt_pressed' = r.alt_pressed
     /\ input_buffer' = r.input_buffer
     /\ input_index' = r.input_index
     /\ sink' = r.sink
     /\ prompts' = r.prompts
     /\ clears' = r.clears
     /\ dispatched' = r.dispatched
     /\ writes' = r.writes
     /\ lookups' = r.lookups
     /\ cmd' = r.cmd
     /\ cmd_writes' = r.cmd_writes
     /\ cpu' = r.cpu
     /\ heap_current' = r.heap_current
     /\ refused' = r.refused
     /\ calls' = calls
     /\ scancode' = sc
     /\ pre' = [input_index |-> input_index, shift_pressed |-> shift_pressed,
                caps_lock |-> caps_lock, ctrl_pressed |-> ctrl_pressed,
                alt_pressed |-> alt_pressed]
     /\ line' = NextLine(sc)
     /\ run' = NextRun(sc, r.input_index)
     /\ nEvents' = nEvents + 1

\* One keyboard interrupt, taken as a whole.
Feed(sc) == Decode(sc) /\ UNCHANGED machine

\* The bytes Spec feeds: both edges of Shift and Ctrl, Caps Lock, Alt,
\* Backspace, Enter, some character keys and their like, a key the table
\* maps to nothing (Escape, 1), one beyond the table (F1, 59) and the release
\* of a character key.
Keys ==
  { KEY_LSHIFT, KEY_LSHIFT + RELEASE_BIT, KEY_CTRL, KEY_CTRL + RELEASE_BIT,
    KEY_CAPS, KEY_ALT, KEY_BACKSPACE, KEY_ENTER, KEY_C, KEY_L,
    ScanOf(Ord("1")), ScanOf(ch_a), ScanOf(ch_space), 1, 59,
    ScanOf(ch_a) + RELEASE_BIT }

KeyEvent ==
  \E sc \in Keys : nEvents < MaxEvents /\ Feed(sc) /\ UNCHANGED held

Next == KeyEvent

Spec == Init /\ [][Next]_vars

(***************************************************************************)
(* SpecHeap: the memtest command has been run some number of times since   *)
(* the boot, up to the point where the heap is used up; the line is empty  *)
(* or holds "memtest".                                                     *)
(***************************************************************************)
\* Scancode bytes fed to the decoder in one behaviour of SpecHeap.
MaxHeapEvents == 3

\* heap_current after one run of cmd_memtest from heap_current = hc.
memtest_run[hc \in Nat] ==
  cmd_memtest([heap_current |-> hc, refused |-> 0]).heap_current

\* Runs taken in one block when the runs are counted off.
BlockRuns == 40

memtest_block[hc \in Nat] ==
  LET F[j \in 0..BlockRuns] == IF j = 0 THEN hc ELSE memtest_run[F[j - 1]]
  IN F[BlockRuns]

\* heap_current after k more runs of cmd_memtest, counted off in blocks.
Memtests(hc, k) ==
  LET G[j \in 0..(k \div BlockRuns)] ==
        IF j = 0 THEN hc ELSE memtest_block[G[j - 1]]
      R[j \in 0..(k % BlockRuns)] ==
        IF j = 0 THEN G[k \div BlockRuns] ELSE memtest_run[R[j - 1]]
  IN R[k % BlockRuns]

\* Runs of memtest before the initial state: none, and the numbers around
\* the run in which the first request is refused.
MemtestRuns == {0, 1443, 1444, 1445}

InitHeap ==
  \E k \in MemtestRuns :
    \E w \in {<<>>, CommandName["memtest"]} :
      /\ InitWith(w, NoFlags)
      /\ held = {}
      /\ BootedMachine
      /\ heap_current = Memtests(kmalloc(heap_start, size_t(100)).heap_current, k)
      /\ refused = 0
      /\ calls = <<>>

HeapKeys == {KEY_ENTER, KEY_BACKSPACE, ScanOf(Ord("m")), ScanOf(Ord("t"))}

HeapKey ==
  \E sc \in HeapKeys : nEvents < MaxHeapEvents /\ Feed(sc) /\ UNCHANGED held

NextHeap == HeapKey

SpecHeap == InitHeap /\ [][NextHeap]_vars

(***************************************************************************)
(* A keyboard used one key at a time, over all 256 bytes: with no key of   *)
(* the stroke down, any key that is up is pressed or a modifier held since *)
(* the initial state is released; a pressed key is released before the     *)
(* next byte.                                                              *)
(***************************************************************************)
NoKeyDown == scancode = -1 \/ IsRelease(scancode)

PressKey ==
  /\ NoKeyDown
  /\ \E sc \in (0..(RELEASE_BIT - 1)) \ held :
       nEvents < MaxStrokeEvents /\ Feed(sc) /\ UNCHANGED held

ReleaseKey ==
  /\ ~NoKeyDown
  /\ nEvents < MaxStrokeEvents
  /\ Feed(scancode + RELEASE_BIT)
  /\ UNCHANGED held

ReleaseHeld ==
  /\ NoKeyDown
  /\ \E k \in held :
       nEvents < MaxStrokeEvents /\ Feed(k + RELEASE_BIT) /\ held' = held \ {k}

NextStroke == PressKey \/ ReleaseKey \/ ReleaseHeld

SpecStroke == InitStroke /\ [][NextStroke]_vars

(***************************************************************************)
(* The CPU executes the instruction at pc.  One action per kind of         *)
(* instruction or statement.                                               *)
(***************************************************************************)
Fetch(op) ==
  /\ cpu = "running"
  /\ ~reg.hlt
  /\ pc[1] \in DOMAIN Code
  /\ pc[2] \in DOMAIN Code[pc[1]]
  /\ Instr[1] = op

devices == <<kbc, pic>>
tables == <<idt, idtp>>
ghosts == <<arrived, accessed, entries>>
decoder ==
  <<flags, input_buffer, input_index, sink, prompts, clears, dispatched,
    writes, lookups, cmd, cmd_writes, history, heap>>

Cli ==
  /\ Fetch("cli")
  /\ reg' = [reg EXCEPT !.IFlag = 0]
  /\ pc' = Succ(pc)
  /\ UNCHANGED <<image, stack, local, devices, tables, io, ghosts, keyboard>>

Sti ==
  /\ Fetch("sti")
  /\ reg' = [reg EXCEPT !.IFlag = 1]
  /\ pc' = Succ(pc)
  /\ UNCHANGED <<image, stack, local, devices, tables, io, ghosts, keyboard>>

\* hlt stops the CPU until an interrupt is delivered; the interrupt returns
\* to the instruction after it.
Hlt ==
  /\ Fetch("hlt")
  /\ reg' = [reg EXCEPT !.hlt = TRUE]
  /\ pc' = Succ(pc)
  /\ UNCHANGED <<image, stack, local, devices, tables, io, ghosts, keyboard>>

\* mov register, immediate.  Loading the stack pointer starts a new stack.
Mov ==
  /\ Fetch("mov")
  /\ reg' = SetReg(reg, Instr[2], Instr[3])
  /\ stack' = IF Instr[2] \in {"sp", "esp"} THEN <<>> ELSE stack
  /\ pc' = Succ(pc)
  /\ UNCHANGED <<image, local, devices, tables, io, ghosts, keyboard>>

\* mov register, register (cr0 included).
MovReg ==
  /\ Fetch("movr")
  /\ reg' = SetReg(reg, Instr[2], GetReg(reg, Instr[3]))
  /\ stack' = IF Instr[2] \in {"sp", "esp"} THEN <<>> ELSE stack
  /\ pc' = Succ(pc)
  /\ UNCHANGED <<image, local, devices, tables, io, ghosts, keyboard>>

Or ==
  /\ Fetch("or")
  /\ reg' = SetReg(reg, Instr[2], BitOr(GetReg(reg, Instr[2]), Instr[3]))
  /\ pc' = Succ(pc)
  /\ UNCHANGED <<image, stack, local, devices, tables, io, ghosts, keyboard>>

Test ==
  /\ Fetch("test")
  /\ reg' = [reg EXCEPT !.ZF = IF BitAnd(GetReg(reg, Instr[2]), Instr[3]) = 0
                                THEN 1 ELSE 0]
  /\ pc' = Succ(pc)
  /\ UNCHANGED <<image, stack, local, devices, tables, io, ghosts, keyboard>>

\* jmp.  The jump of the boot sector into the kernel lands in the image only
\* if the copy went to the second megabyte, which takes an open A20 gate.
Jump ==
  /\ Fetch("jmp")
  /\ IF pc[1] \notin KernelFiles /\ Instr[2][1] \in KernelFiles /\ kbc.a20 = 0
     THEN cpu' = "reset" /\ pc' = pc
     ELSE cpu' = cpu /\ pc' = Instr[2]
  /\ UNCHANGED <<image, reg, stack, local, devices, tables, io, ghosts, decoder>>

Jcc ==
  /\ \/ Fetch("jc") /\ pc' = IF reg.CF = 1 THEN Instr[2] ELSE Succ(pc)
     \/ Fetch("jz") /\ pc' = IF reg.ZF = 1 THEN Instr[2] ELSE Succ(pc)
     \/ Fetch("jnz") /\ pc' = IF reg.ZF = 0 THEN Instr[2] ELSE Succ(pc)
  /\ UNCHANGED <<image, reg, stack, local, devices, tables, io, ghosts, keyboard>>

\* int n in real mode: a BIOS service.  The disk service (0x13) reports
\* failure in the carry flag.
\* What int 0x13 with ah = 2 is asked to read: al sectors from cylinder ch,
\* head dh, sector cl of drive dl to es:bx.
disk_request(rg) ==
  [drive |-> GetReg(rg, "dl"), cylinder |-> GetReg(rg, "ch"),
   head |-> GetReg(rg, "dh"), sector |-> GetReg(rg, "cl"),
   count |-> GetReg(rg, "al"), to |-> rg.es * 16 + GetReg(rg, "bx")]

\* int 0x10 (the teletype loop of print_string: the string at si is printed
\* and si is left at its end) and int 0x13 (disk read, which fails or not).
BiosInt ==
  /\ Fetch("int")
  /\ \E cf \in {0, 1} :
       /\ reg' = [reg EXCEPT !.CF = IF Instr[2] = 19 THEN cf ELSE @,
                             !.esi = IF Instr[2] = 16 THEN <<"end of", @>>
                                     ELSE @]
       /\ ram' = IF Instr[2] = 19 /\ GetReg(reg, "ah") = 2
                 THEN IF cf = 0
                      THEN [ram EXCEPT !.disk = Append(@, disk_request(reg))]
                      ELSE [ram EXCEPT !.failed = @ + 1]
                 ELSE IF Instr[2] = 16
                      THEN [ram EXCEPT !.tty = Append(@, reg.esi)]
                      ELSE ram
  /\ pc' = Succ(pc)
  /\ UNCHANGED <<build, screen, stack, local, devices, tables, io, ghosts,
                 keyboard>>

\* In real mode the BIOS has its timer tick (IRQ 0) running: with IF set the
\* CPU takes it, also out of a hlt, and the BIOS handler returns to the
\* instruction that follows.
BiosTimer ==
  /\ cpu = "running"
  /\ pc[1] \notin KernelFiles
  /\ reg.cr0 % 2 = 0
  /\ reg.IFlag = 1
  /\ reg.hlt
  /\ reg' = [reg EXCEPT !.hlt = FALSE]
  /\ UNCHANGED <<image, pc, stack, local, devices, tables, io, ghosts,
                 keyboard>>

\* rep movsb with the direction flag clear, as the BIOS leaves it: ecx bytes
\* go from ds:esi to es:edi.  With flat segments the addresses are linear.
RepMovsb ==
  /\ Fetch("rep_movsb")
  /\ ram' = [ram EXCEPT !.copy =
               Append(@, [from |-> reg.esi, to |-> reg.edi, bytes |-> reg.ecx,
                          flat |-> reg.ds = DATA_SEG /\ reg.es = DATA_SEG
                                   /\ Protected(reg)])]
  /\ reg' = [reg EXCEPT !.esi = @ + reg.ecx, !.edi = @ + reg.ecx, !.ecx = 0]
  /\ pc' = Succ(pc)
  /\ UNCHANGED <<build, screen, stack, local, devices, tables, io, ghosts,
                 keyboard>>

Pushed(kind, width, v) ==
  /\ stack' = Append(stack, [k |-> kind, w |-> width, v |-> v])
  /\ reg' = MoveSp(reg, 0 - width)

\* call, and a C call that passes one argument.
Call ==
  /\ Fetch("call")
  /\ Pushed("ret", OperandSize(reg), Succ(pc))
  /\ local' = IF Len(Instr) = 4 THEN [local EXCEPT ![Instr[3]] = Instr[4]]
              ELSE local
  /\ pc' = Instr[2]
  /\ UNCHANGED <<image, devices, tables, io, ghosts, keyboard>>

\* A call of a function the kernel image defines in one file or the other.
CallLinked ==
  /\ Fetch("call_linked")
  /\ Pushed("ret", OperandSize(reg), Succ(pc))
  /\ pc' = Linked(build, Instr[2])
  /\ UNCHANGED <<image, local, devices, tables, io, ghosts, keyboard>>

Top == stack[Len(stack)]
Popped == SubSeq(stack, 1, Len(stack) - 1)

\* ret.  With nothing pushed since sp was loaded, the boot sector pops the
\* word at 0x7C00, its own first two bytes, which is no address of its code.
Ret ==
  /\ Fetch("ret")
  /\ IF stack = <<>>
     THEN /\ pc[1] \notin KernelFiles
          /\ stack' = stack
          /\ reg' = MoveSp(reg, OperandSize(reg))
          /\ pc' = <<"nowhere", 0>>
     ELSE /\ Top.k = "ret"
          /\ stack' = Popped
          /\ reg' = MoveSp(reg, Top.w)
          /\ pc' = Top.v
  /\ UNCHANGED <<image, local, devices, tables, io, ghosts, keyboard>>

Push ==
  /\ Fetch("push")
  /\ Pushed("reg", IF Instr[2] = "ax" THEN 2 ELSE 4, GetReg(reg, Instr[2]))
  /\ pc' = Succ(pc)
  /\ UNCHANGED <<image, local, devices, tables, io, ghosts, keyboard>>

Pop ==
  /\ Fetch("pop")
  /\ stack # <<>>
  /\ Top.k = "reg"
  /\ stack' = Popped
  /\ reg' = MoveSp(SetReg(reg, Instr[2], Top.v), Top.w)
  /\ pc' = Succ(pc)
  /\ UNCHANGED <<image, local, devices, tables, io, ghosts, keyboard>>

Pusha ==
  /\ Fetch("pusha")
  /\ Pushed("regs", 8 * OperandSize(reg), reg.eax)
  /\ pc' = Succ(pc)
  /\ UNCHANGED <<image, local, devices, tables, io, ghosts, keyboard>>

Popa ==
  /\ Fetch("popa")
  /\ stack # <<>>
  /\ Top.k = "regs"
  /\ stack' = Popped
  /\ reg' = MoveSp([reg EXCEPT !.eax = Top.v], Top.w)
  /\ pc' = Succ(pc)
  /\ UNCHANGED <<image, local, devices, tables, io, ghosts, keyboard>>

\* in al, port.
In ==
  /\ Fetch("in")
  /\ reg' = SetReg(reg, Instr[2], port_value(Instr[3]))
  /\ kbc' = kbc_after_in(Instr[3])
  /\ io' = Logged(<<"in", Instr[3], port_value(Instr[3])>>)
  /\ pc' = Succ(pc)
  /\ UNCHANGED <<image, stack, local, pic, tables, ghosts, keyboard>>

\* out port, al.
Out ==
  /\ Fetch("out")
  /\ kbc' = kbc_after_out(Instr[2], GetReg(reg, Instr[3]))
  /\ pic' = pic_after_out(Instr[2], GetReg(reg, Instr[3]))
  /\ io' = Logged(<<"out", Instr[2], GetReg(reg, Instr[3])>>)
  /\ pc' = Succ(pc)
  /\ UNCHANGED <<image, reg, stack, local, tables, ghosts, keyboard>>

\* local = inb(port).
Inb ==
  /\ Fetch("inb")
  /\ local' = [local EXCEPT ![Instr[2]] = port_value(Instr[3])]
  /\ kbc' = kbc_after_in(Instr[3])
  /\ io' = Logged(<<"in", Instr[3], port_value(Instr[3])>>)
  /\ pc' = Succ(pc)
  /\ UNCHANGED <<image, reg, stack, pic, tables, ghosts, keyboard>>

\* outb(port, value).
Outb ==
  /\ Fetch("outb")
  /\ kbc' = kbc_after_out(Instr[2], Instr[3])
  /\ pic' = pic_after_out(Instr[2], Instr[3])
  /\ io' = Logged(<<"out", Instr[2], Instr[3]>>)
  /\ pc' = Succ(pc)
  /\ UNCHANGED <<image, reg, stack, local, tables, ghosts, keyboard>>

Lgdt ==
  /\ Fetch("lgdt")
  /\ reg' = [reg EXCEPT !.gdtr = Instr[2]]
  /\ pc' = Succ(pc)
  /\ UNCHANGED <<image, stack, local, devices, tables, io, ghosts, keyboard>>

\* lidt idtp: IDTR takes what the variable idtp holds.
Lidt ==
  /\ Fetch("lidt")
  /\ reg' = [reg EXCEPT !.idtr = idtp]
  /\ pc' = Succ(pc)
  /\ UNCHANGED <<image, stack, local, devices, tables, io, ghosts, keyboard>>

\* jmp selector:offset.  With PE set the selector is looked up in the GDT;
\* without a GDT the CPU faults, and with no handlers it resets.
JmpFar ==
  /\ Fetch("jmpf")
  /\ IF reg.cr0 % 2 = 1 /\ reg.gdtr # "gdt_descriptor"
     THEN cpu' = "reset" /\ UNCHANGED <<reg, pc>>
     ELSE /\ cpu' = cpu
          /\ reg' = [reg EXCEPT !.cs = Instr[2]]
          /\ pc' = Instr[3]
  /\ UNCHANGED <<image, stack, local, devices, tables, io, ghosts, decoder>>

\* Code without effect on the modelled state, noted in accessed when it
\* touches the keyboard state.
Stmt ==
  /\ Fetch("stmt")
  /\ accessed' = IF Instr[3] # {} THEN accessed \cup {Context} ELSE accessed
  /\ pc' = Succ(pc)
  /\ UNCHANGED <<image, reg, stack, local, devices, tables, io, arrived,
                 entries, keyboard>>

\* void* test_ptr = kmalloc(100); in kernel_main.
Kmalloc ==
  /\ Fetch("kmalloc")
  /\ heap_current' = kmalloc(heap_current, size_t(Instr[2])).heap_current
  /\ refused' = IF kmalloc(heap_current, size_t(Instr[2])).ptr = NULL
                THEN 1 ELSE 0
  /\ calls' = calls
  /\ pc' = Succ(pc)
  /\ UNCHANGED <<image, reg, stack, local, devices, tables, io, ghosts, flags,
                 input_buffer, input_index, effects, history>>

\* idtp.limit = sizeof(idt) - 1; idtp.base = (uint32_t)&idt;
SetIdtp ==
  /\ Fetch("set_idtp")
  /\ idtp' = [limit |-> IDT_SIZE * 8 - 1, base |-> "idt"]
  /\ pc' = Succ(pc)
  /\ UNCHANGED <<image, reg, stack, local, devices, idt, io, ghosts, keyboard>>

\* for (int i = 0; ...
ForInit ==
  /\ Fetch("for_init")
  /\ local' = [local EXCEPT ![Instr[2]] = Instr[3]]
  /\ pc' = Succ(pc)
  /\ UNCHANGED <<image, reg, stack, devices, tables, io, ghosts, keyboard>>

\* ... i < IDT_SIZE; i++)
ForNext ==
  /\ Fetch("for_next")
  /\ local' = [local EXCEPT ![Instr[2]] = @ + 1]
  /\ pc' = IF local[Instr[2]] + 1 < Instr[3] THEN Instr[4] ELSE Succ(pc)
  /\ UNCHANGED <<image, reg, stack, devices, tables, io, ghosts, keyboard>>

\* set_idt_entry(i, ...) and set_idt_entry(33, ...).
SetIdtEntry ==
  /\ \/ /\ Fetch("set_idt_entry_at")
        /\ idt' = set_idt_entry(idt, local[Instr[2]], Instr[3], Instr[4],
                                Instr[5])
     \/ /\ Fetch("set_idt_entry")
        /\ idt' = set_idt_entry(idt, Instr[2], Instr[3], Instr[4], Instr[5])
  /\ pc' = Succ(pc)
  /\ UNCHANGED <<image, reg, stack, local, devices, idtp, io, ghosts, keyboard>>

\* if (irq >= 8)
IfGe ==
  /\ Fetch("if_ge")
  /\ pc' = IF local[Instr[2]] >= Instr[3] THEN Succ(pc) ELSE Instr[4]
  /\ UNCHANGED <<image, reg, stack, local, devices, tables, io, ghosts, keyboard>>

\* handle_keyboard_input(scancode): the decoder runs to its end, or to the
\* command that halts or resets the machine.  cmd_shutdown clears IF.
CallDecoder ==
  /\ Fetch("handle_keyboard_input")
  /\ Decode(local[Instr[2]])
  /\ pc' = IF cpu' = "running" THEN Succ(pc) ELSE pc
  /\ reg' = IF cmd' = "shutdown" THEN [reg EXCEPT !.IFlag = 0] ELSE reg
  /\ accessed' = accessed \cup {Context}
  /\ UNCHANGED <<image, stack, local, devices, tables, io, arrived, entries,
                 held>>

\* iret: back to the interrupted code, with the flags it had; code that sat
\* in a hlt loop sits in it again.
Iret ==
  /\ Fetch("iret")
  /\ stack # <<>>
  /\ Top.k = "frame"
  /\ stack' = Popped
  /\ reg' = MoveSp([reg EXCEPT !.IFlag = Top.v[2]], Top.w)
  /\ pc' = Top.v[1]
  /\ cpu' = Top.v[3]
  /\ entries' = entries - 1
  /\ UNCHANGED <<image, local, devices, tables, io, arrived, accessed,
                 decoder>>

(***************************************************************************)
(* The hardware around the CPU.                                            *)
(***************************************************************************)
\* The 8042 takes the byte written to it.
KbcTakes ==
  /\ kbc.ibf = 1
  /\ kbc' = kbc_take(kbc)
  /\ UNCHANGED <<image, pc, reg, stack, local, pic, tables, io, ghosts,
                 keyboard>>

\* A key event: the keyboard's byte is in the 8042's output buffer and IRQ1 is
\* raised.  The 8042 takes no byte from the keyboard while its buffer is full.
\* Keys are pressed as well while the CPU sits in the hlt loop of
\* kernel_panic or cmd_shutdown.
KeyArrives(sc, max) ==
  /\ cpu \in {"running", "halted"}
  /\ pc[1] \in KernelFiles
  /\ arrived < max
  /\ kbc.obf = 0
  /\ kbc.enabled = 1
  /\ kbc' = [kbc EXCEPT !.out = sc, !.obf = 1]
  /\ pic' = IF pic.master.icw = 0
            THEN [pic EXCEPT !.master.irr = BitOr(@, 2 ^ KEYBOARD_IRQ)]
            ELSE pic
  /\ arrived' = arrived + 1
  /\ UNCHANGED <<image, pc, reg, stack, local, tables, io, accessed, entries,
                 keyboard>>

\* The CPU, in protected mode with IF set, takes the interrupt the master
\* 8259 requests, out of a hlt loop too: it goes through the gate of the vector if IDTR holds the
\* table, the gate is present and leads to code; otherwise it faults, and
\* with no fault handlers it resets.
Deliver ==
  /\ cpu \in {"running", "halted"}
  /\ reg.IFlag = 1
  /\ Protected(reg)
  /\ pic_requests(pic.master, KEYBOARD_IRQ)
  /\ pic' = [pic EXCEPT !.master = pic_acknowledge(@, KEYBOARD_IRQ)]
  /\ LET vector == pic.master.base + KEYBOARD_IRQ
         gate == idt[vector]
         target == CodeAt(GateOffset(gate))
     IN IF /\ reg.idtr.base = "idt"
           /\ vector * 8 + 7 <= reg.idtr.limit
           /\ GatePresent(gate)
           /\ gate.selector = CODE_SEG
           /\ target[1] \in KernelFiles
        THEN /\ stack' = Append(stack, [k |-> "frame", w |-> 12,
                                        v |-> <<pc, reg.IFlag, cpu>>])
             /\ reg' = MoveSp([reg EXCEPT
                                  !.IFlag = IF GateClearsIF(gate) THEN 0 ELSE @,
                                  !.hlt = FALSE], 0 - 12)
             /\ pc' = target
             /\ entries' = entries + 1
             /\ io' = <<>>
             /\ cpu' = "running"
        ELSE /\ cpu' = "reset"
             /\ UNCHANGED <<pc, reg, stack, entries, io>>
  /\ UNCHANGED <<image, local, kbc, tables, arrived, accessed, decoder>>

(***************************************************************************)
(* SpecBoot: from the boot sector (boot.asm or aux-boot.asm) through       *)
(* kernel_main to the idle loop, with keys pressed once the kernel runs.   *)
(***************************************************************************)
InitBoot == BiosMachine /\ InitWith(<<>>, NoFlags) /\ held = {}

BootKeys == {ScanOf(ch_a), KEY_ENTER}

BootKey == \E sc \in BootKeys : KeyArrives(sc, MaxBootKeys)

NextBoot ==
  \/ Cli \/ Sti \/ Hlt \/ Mov \/ MovReg \/ Or \/ Test \/ Jump \/ Jcc
  \/ BiosInt \/ Call \/ CallLinked \/ Ret \/ Push \/ Pop \/ Pusha \/ Popa
  \/ In \/ Out \/ Inb \/ Outb \/ Lgdt \/ Lidt \/ JmpFar \/ Stmt
  \/ SetIdtp \/ ForInit \/ ForNext \/ SetIdtEntry \/ IfGe \/ CallDecoder
  \/ Kmalloc \/ RepMovsb \/ BiosTimer
  \/ Iret \/ KbcTakes \/ BootKey \/ Deliver

SpecBoot == InitBoot /\ [][NextBoot]_vars

(***************************************************************************)
(* SpecEoi: the booted kernel idles with the name of a shell command (or   *)
(* nothing) typed; the keys Enter and a arrive and the handler runs        *)
(* statement by statement.  The CPU, as long as it runs, executes the      *)
(* instruction at pc.                                                      *)
(***************************************************************************)
EoiLines ==
  {<<>>} \cup {CommandName[Commands[k]] : k \in 1..Len(Commands)}

InitEoi == \E w \in EoiLines : InitWith(w, NoFlags) /\ held = {} /\ Booted

EoiKey == \E sc \in BootKeys : KeyArrives(sc, MaxIrqKeys)

\* The steps of the CPU other than the call of the decoder.
CpuSteps ==
  \/ Deliver \/ Pusha \/ Call \/ Inb \/ IfGe \/ Outb \/ Ret \/ Popa
  \/ Iret \/ Hlt \/ Jump

NextEoi == EoiKey \/ CpuSteps \/ CallDecoder

\* Weak fairness of the CPU's steps; for the call of the decoder it is
\* written with the condition under which the call is enabled.
SpecEoi ==
  /\ InitEoi /\ [][NextEoi]_vars
  /\ WF_vars(CpuSteps)
  /\ ([]<>~Fetch("handle_keyboard_input") \/ []<><<CallDecoder>>_vars)

(***************************************************************************)
(* Vocabulary of the properties.                                           *)
(***************************************************************************)
\* The line the buffer holds: input_buffer[0 .. input_index - 1].
BufferLine == [i \in 1..input_index |-> input_buffer[i - 1]]

Full == INPUT_BUFFER_SIZE - 1

PreFlags ==
  <<pre.shift_pressed, pre.caps_lock, pre.ctrl_pressed, pre.alt_pressed>>

\* The last byte was a printable press that was no Ctrl-C / Ctrl-L.
WasTyped ==
  /\ IsPrintable(scancode)
  /\ ~(pre.ctrl_pressed # 0 /\ scancode \in {KEY_C, KEY_L})

(***************************************************************************)
(* C1.  Whatever bytes are fed to handle_keyboard_input, input_index stays *)
(* within 0 .. INPUT_BUFFER_SIZE - 1 (255), and every store the decoder    *)
(* makes to input_buffer (append, Backspace terminator, Enter terminator)  *)
(* is at an index in 0 .. 255.                                             *)
(***************************************************************************)
C1_IndexAndWritesInBounds ==
  /\ input_index \in 0..(INPUT_BUFFER_SIZE - 1)
  /\ writes \subseteq 0..(INPUT_BUFFER_SIZE - 1)

\* Enter pressed on a full buffer: the terminator goes to index 255.
C1_Witness ==
  /\ scancode = KEY_ENTER
  /\ pre.input_index = Full
  /\ writes = {INPUT_BUFFER_SIZE - 1}

(***************************************************************************)
(* C2.  While nothing but printable keys (no Ctrl-C / Ctrl-L) has been     *)
(* pressed since the buffer was empty, and fewer than 256 of them, the     *)
(* buffer holds the decoded characters in the order typed and input_index  *)
(* is their number.  (In such a run line is the concatenation of the       *)
(* decoded characters: nothing resets it or removes from it.)              *)
(***************************************************************************)
C2_BufferIsWhatWasTyped ==
  run \in 0..(INPUT_BUFFER_SIZE - 1) => input_index = run /\ BufferLine = line

\* A run of 255 printable presses, the last one the key 1.
C2_Witness ==
  /\ run = Full
  /\ scancode = ScanOf(Ord("1"))
  /\ input_buffer[Full - 1] = Ord("1")

(***************************************************************************)
(* C3.  On every Enter press the C string handed to process_command is     *)
(* exactly the characters appended since the last reset (start, previous   *)
(* Enter, Ctrl-C) minus those Backspace removed, in order: the dispatcher  *)
(* is called with the array, and reads it up to the first NUL.             *)
(***************************************************************************)
C3_EnterDispatchesTheLine ==
  [][scancode' = KEY_ENTER => dispatched' = <<line>>]_vars

\* Shift down, 1, Shift up, Enter from the empty line: "!" is dispatched.
C3_Witness ==
  /\ scancode = KEY_ENTER
  /\ nEvents = 4
  /\ shift_pressed = 0
  /\ dispatched = <<Str(<<"!">>)>>

(***************************************************************************)
(* C4.  As claimed: each Enter press with a non-empty buffer invokes the   *)
(* dispatcher exactly once, with the trimmed content of the line (trailing *)
(* blanks removed), and resets input_index to 0.                           *)
(***************************************************************************)
RECURSIVE TrimRight(_)
TrimRight(str) ==
  IF str # <<>> /\ IsBlank(str[Len(str)])
  THEN TrimRight(SubSeq(str, 1, Len(str) - 1))
  ELSE str

C4_AsClaimed ==
  [][(scancode' = KEY_ENTER /\ input_index > 0)
       => /\ dispatched' = <<TrimRight(line)>>
          /\ input_index' = 0]_vars

(***************************************************************************)
(* C4, amended.  Each Enter press with a non-empty buffer invokes the      *)
(* dispatcher exactly once, with the content of the line as typed (blanks  *)
(* included: trimming is the dispatcher's work), and input_index is reset  *)
(* to 0 when the dispatcher returns; when the command halts or resets the  *)
(* machine (panic, shutdown, reboot) input_index keeps its value.          *)
(***************************************************************************)
C4_EnterDispatchesOnce ==
  [][(scancode' = KEY_ENTER /\ input_index > 0)
       => /\ Len(dispatched') = 1
          /\ dispatched'[1] = BufferLine
          /\ cpu' = "running" => input_index' = 0
          /\ cpu' # "running" => input_index' = input_index]_vars

\* Enter on the line " hi ": dispatched with its blanks, index back to 0.
C4_Witness ==
  /\ scancode = KEY_ENTER
  /\ pre.input_index = 4
  /\ dispatched = <<Str(<<" ", "h", "i", " ">>)>>
  /\ cmd = "unknown"
  /\ input_index = 0

(***************************************************************************)
(* C5.  Ctrl-C, in any decoder state (any buffer content, a full buffer    *)
(* included, any Shift / Caps Lock / Alt state), sets input_index to 0,    *)
(* redraws the prompt exactly once and does not invoke process_command;    *)
(* and the line a later Enter dispatches holds none of the discarded       *)
(* characters: it is what was typed since.                                 *)
(***************************************************************************)
C5_CtrlCDiscardsTheLine ==
  [][/\ (scancode' = KEY_C /\ ctrl_pressed # 0)
          => /\ input_index' = 0
             /\ prompts' = 1
             /\ dispatched' = <<>>
             /\ cmd' = "none"
             /\ cpu' = "running"
     /\ scancode' = KEY_ENTER
          => \A i \in 1..Len(dispatched') : dispatched'[i] = line]_vars

\* Ctrl-C on a full buffer, with Shift held.
C5_Witness ==
  /\ scancode = KEY_C
  /\ pre.ctrl_pressed = 1
  /\ pre.shift_pressed = 1
  /\ pre.input_index = Full
  /\ input_index = 0
  /\ prompts = 1

(***************************************************************************)
(* C6.  A Backspace press when input_index is 0 changes nothing:           *)
(* input_index stays 0, input_buffer is not written, no character goes to  *)
(* the output sink, and the modifier flags are unchanged.                  *)
(***************************************************************************)
C6_BackspaceOnEmptyIsNoOp ==
  [][(scancode' = KEY_BACKSPACE /\ input_index = 0)
       => /\ input_index' = 0
          /\ input_buffer' = input_buffer
          /\ writes' = {}
          /\ sink' = <<>>
          /\ prompts' = 0
          /\ clears' = 0
          /\ flags' = flags]_vars

\* Backspace pressed on an empty buffer while Ctrl and Caps Lock are set.
C6_Witness ==
  /\ scancode = KEY_BACKSPACE
  /\ pre.input_index = 0
  /\ pre.ctrl_pressed = 1
  /\ pre.caps_lock = 1
  /\ input_index = 0

(***************************************************************************)
(* C7.  For every 7-bit scancode that is no modifier code (Shift 0x2A /    *)
(* 0x36, Ctrl 0x1D, Alt 0x38, Caps Lock 0x3A), neither its press byte nor  *)
(* its release byte changes shift_pressed, ctrl_pressed, alt_pressed or    *)
(* caps_lock, from any state: so after the press and then the release the  *)
(* four flags have the values they had before the press.                   *)
(***************************************************************************)
C7_NonModifierKeepsFlags ==
  [][(scancode' % RELEASE_BIT) \notin ModifierCodes => flags' = flags]_vars

\* The key a pressed and released with all four flags set.
C7_Witness ==
  /\ scancode = ScanOf(ch_a) + RELEASE_BIT
  /\ nEvents = 2
  /\ PreFlags = <<1, 1, 1, 1>>
  /\ flags = <<1, 1, 1, 1>>

(***************************************************************************)
(* C8.  With Shift held and Ctrl not held, each digit-row and punctuation  *)
(* key appends exactly its documented shifted symbol, whatever caps_lock   *)
(* is: 1 ! 2 @ 3 # 4 $ 5 % 6 ^ 7 & 8 * 9 ( 0 ) - _ = + [ { ] } ; : ' "     *)
(* (grave) ~ \ | , < . > / ?  (When the buffer is full nothing is          *)
(* appended: that is C10.)                                                 *)
(***************************************************************************)
DocumentedShift ==
  << <<"1", "!">>, <<"2", "@">>, <<"3", "#">>, <<"4", "$">>, <<"5", "%">>,
     <<"6", "^">>, <<"7", "&">>, <<"8", "*">>, <<"9", "(">>, <<"0", ")">>,
     <<"-", "_">>, <<"=", "+">>, <<"[", "{">>, <<"]", "}">>, <<";", ":">>,
     <<"'", "\"">>, <<"backtick", "~">>, <<"\\", "|">>, <<",", "<">>,
     <<".", ">">>, <<"/", "?">> >>

\* Scancode of each documented key, and the symbol it is to give.
DocumentedKeys ==
  [k \in 1..Len(DocumentedShift) |->
     [key |-> ScanOf(Ord(DocumentedShift[k][1])),
      symbol |-> Ord(DocumentedShift[k][2])]]

C8_ShiftedSymbols ==
  [][\A k \in 1..Len(DocumentedKeys) :
       (/\ scancode' = DocumentedKeys[k].key
        /\ shift_pressed # 0
        /\ ctrl_pressed = 0)
         => IF input_index < Full
            THEN /\ input_index' = input_index + 1
                 /\ input_buffer' =
                      [input_buffer EXCEPT ![input_index] =
                                             DocumentedKeys[k].symbol]
                 /\ sink' = <<DocumentedKeys[k].symbol>>
            ELSE input_buffer' = input_buffer /\ input_index' = input_index
    ]_vars

\* Shift and Caps Lock both set, the key 6 pressed: ^ is appended.
C8_Witness ==
  /\ scancode = ScanOf(Ord("6"))
  /\ pre.shift_pressed = 1
  /\ pre.caps_lock = 1
  /\ pre.ctrl_pressed = 0
  /\ pre.input_index = 0
  /\ BufferLine = Str(<<"^">>)

(***************************************************************************)
(* C9.  As claimed: for every letter key the appended character is         *)
(* upper-case exactly when one, and only one, of shift_pressed and         *)
(* caps_lock is set, and lower-case when both or neither are; and          *)
(* caps_lock never changes the character a non-letter key produces.        *)
(***************************************************************************)
IsLetterKey(sc) ==
  /\ sc \in 0..(TableSize - 1)
  /\ scancode_to_ascii[sc + 1] >= ch_a
  /\ scancode_to_ascii[sc + 1] <= ch_z

C9_AsClaimed ==
  [][(IsTyped(scancode') /\ input_index < Full)
       => LET c0 == scancode_to_ascii[scancode' + 1]
              c == input_buffer'[input_index]
          IN IF IsLetterKey(scancode')
             THEN c = IF (shift_pressed # 0) # (caps_lock # 0)
                      THEN c0 - ch_a + ch_A
                      ELSE c0
             ELSE c = apply_modifiers([Cur EXCEPT !.caps_lock = 0], c0)
    ]_vars

(***************************************************************************)
(* C10.  When the buffer already holds INPUT_BUFFER_SIZE - 1 (255)         *)
(* characters a further printable key press (no Ctrl-C / Ctrl-L) is        *)
(* dropped: input_buffer and input_index are unchanged, nothing is echoed, *)
(* the dispatcher is not invoked.  After a dropped key Backspace, Enter    *)
(* and Ctrl-C work as ever: Backspace removes the 255th character and      *)
(* emits the erase sequence, Enter dispatches the 255 characters and       *)
(* resets the index, Ctrl-C resets the index without dispatching.          *)
(***************************************************************************)
Dropped == WasTyped /\ pre.input_index = Full

C10_FullBufferDropsKeys ==
  [][/\ (IsTyped(scancode') /\ input_index = Full)
          => /\ input_buffer' = input_buffer
             /\ input_index' = input_index
             /\ writes' = {}
             /\ sink' = <<>>
             /\ prompts' = 0
             /\ dispatched' = <<>>
     /\ (Dropped /\ scancode' = KEY_BACKSPACE)
          => /\ input_index' = Full - 1
             /\ input_buffer' = [input_buffer EXCEPT ![Full - 1] = NUL]
             /\ sink' = <<BS, ch_space, BS>>
             /\ dispatched' = <<>>
     /\ (Dropped /\ scancode' = KEY_ENTER)
          => /\ dispatched' = <<BufferLine>>
             /\ Len(BufferLine) = Full
             /\ cpu' = "running" => input_index' = 0 /\ prompts' = 1
     /\ (Dropped /\ scancode' = KEY_C /\ ctrl_pressed # 0)
          => /\ input_index' = 0
             /\ dispatched' = <<>>
             /\ prompts' = 1]_vars

\* The key 1 pressed on a full buffer, and dropped.
C10_Witness ==
  /\ Dropped
  /\ scancode = ScanOf(Ord("1"))
  /\ input_index = Full
  /\ sink = <<>>

(***************************************************************************)
(* Properties of the boot path and of the interrupt path.                  *)
(***************************************************************************)
\* init_idt has run to its last statement, the lidt.
IdtLoaded == reg.idtr = [limit |-> IDT_SIZE * 8 - 1, base |-> "idt"]

\* Gate 33 leads to keyboard_interrupt_wrapper in the kernel code segment.
KeyboardGateInstalled ==
  /\ GatePresent(idt[KEYBOARD_VECTOR])
  /\ idt[KEYBOARD_VECTOR].selector = CODE_SEG
  /\ idt[KEYBOARD_VECTOR].zero = 0
  /\ GateOffset(idt[KEYBOARD_VECTOR]) = WrapperAddress

\* C11: once init_idt has completed (IDTR holds the table), and in every
\* later state, gate 33 is the one populated gate of the 256: each of the
\* other 255 has offset_low, offset_high, selector, zero and type_attr 0.
C11_OnlyGate33Populated ==
  reg.idtr.base = "idt" =>
    /\ DOMAIN idt = 0..(IDT_SIZE - 1)
    /\ KeyboardGateInstalled
    /\ idt[KEYBOARD_VECTOR] # ZeroGate
    /\ \A n \in DOMAIN idt :
         n # KEYBOARD_VECTOR =>
           /\ idt[n].offset_low = 0
           /\ idt[n].offset_high = 0
           /\ idt[n].selector = 0
           /\ idt[n].zero = 0
           /\ idt[n].type_attr = 0

\* The table was stale before init_idt, or not yet looked at; a key has since
\* gone through gate 33 and the handler is about to return.
C11_Witness ==
  /\ reg.idtr.base = "idt"
  /\ pc = I(142)
  /\ entries = 1
  /\ Cardinality({n \in DOMAIN idt : idt[n] # ZeroGate}) = 1

\* The operation the CPU executes next.
NextOp ==
  IF cpu = "running" /\ pc[1] \in DOMAIN Code /\ pc[2] \in DOMAIN Code[pc[1]]
  THEN Instr[1]
  ELSE "none"

OtherGatesZero ==
  \A n \in DOMAIN idt : n # KEYBOARD_VECTOR => idt[n] = ZeroGate

\* Both 8259s have taken ICW1..ICW4 with the vector bases 0x20 and 0x28.
PicsRemapped ==
  /\ pic.master.icw = 0 /\ pic.master.base = 32
  /\ pic.slave.icw = 0 /\ pic.slave.base = 40

ReadyForInterrupts ==
  /\ IdtLoaded
  /\ reg.idtr = idtp
  /\ KeyboardGateInstalled
  /\ OtherGatesZero
  /\ PicsRemapped
  /\ pic.master.mask = 253
  /\ pic.slave.mask = 255

\* The steps of init_interrupts, each with what must have been done before.
InitInterruptsInOrder ==
  /\ idt'[KEYBOARD_VECTOR] # idt[KEYBOARD_VECTOR]
     /\ idt'[KEYBOARD_VECTOR] # ZeroGate
       => \A n \in DOMAIN idt : idt[n] = ZeroGate
  /\ reg'.idtr # reg.idtr
       => KeyboardGateInstalled /\ OtherGatesZero /\ IdtLoaded'
  /\ \A c \in {"master", "slave"} :
       /\ pic'[c].icw # pic[c].icw \/ pic'[c].base # pic[c].base
            => IdtLoaded
       /\ pic[c].icw = 0 /\ pic'[c].icw = 0 /\ pic'[c].mask # pic[c].mask
            => IdtLoaded /\ PicsRemapped
  /\ NextOp = "sti" /\ pc[1] = "interrupts.c" /\ reg'.IFlag = 1
       => ReadyForInterrupts /\ reg.IFlag = 0

\* C12: init_interrupts zeroes all gates, installs gate 33, loads IDTR,
\* remaps both PICs, sets the masks and then executes sti; when sti executes,
\* IDTR holds the table with gate 33, both PICs are remapped, the master mask
\* is 0xFD and the slave mask is 0xFF.
C12_InitInterruptsOrder ==
  /\ [](NextOp = "sti" /\ pc[1] = "interrupts.c" => ReadyForInterrupts)
  /\ [][InitInterruptsInOrder]_vars

\* sti has just been executed by init_interrupts.
C12_Witness ==
  /\ pc = I(179)
  /\ reg.IFlag = 1
  /\ entries = 0
  /\ ReadyForInterrupts

\* CR0.PE is set.
ProtectionEnabled == reg.cr0 % 2 = 1

\* A step that sets the interrupt flag, and a step in which the CPU takes an
\* interrupt from the master 8259.
EnablesInterrupts == reg.IFlag = 0 /\ reg'.IFlag = 1
TakesInterrupt == pic'.master.isr > pic.master.isr

\* C13: on the boot path the interrupt flag is clear from the boot sector's
\* last cli (before lgdt and the setting of PE) until the sti of
\* init_interrupts: in protected mode the flag is set only once IDTR is
\* loaded and the PICs are remapped and masked, only that sti (and the iret
\* of the handler after it) sets it, and every interrupt the CPU takes goes
\* through the loaded table into the handler.
C13_NoInterruptsBeforeInit ==
  /\ [](/\ pc \in {B(47), B(49), B(50), B(51), B(54)} => reg.IFlag = 0
        /\ ProtectionEnabled /\ reg.IFlag = 1 => ReadyForInterrupts
        /\ ProtectionEnabled /\ ~ReadyForInterrupts => entries = 0)
  /\ [][/\ ProtectionEnabled /\ EnablesInterrupts
             => \/ pc = I(177) /\ NextOp = "sti"
                \/ NextOp = "iret" /\ ReadyForInterrupts
        /\ TakesInterrupt
             => /\ ReadyForInterrupts
                /\ cpu' = "running"
                /\ entries' = entries + 1
                /\ pc' = I(139)]_vars

\* The first interrupt after the sti of init_interrupts has entered the
\* wrapper through gate 33.
C13_Witness ==
  /\ pc = I(139)
  /\ entries = 1
  /\ ProtectionEnabled
  /\ ReadyForInterrupts
  /\ stack[Len(stack)].v[2] = 1

\* The boot sector runs (boot.asm or aux-boot.asm).
InBootSector == pc[1] \in {"boot.asm", "aux-boot.asm"}

\* enable_a20 has written its last command, 0xAE.
A20SequenceDone ==
  \E n \in DOMAIN io : io[n] = <<"out", KBC_STATUS, 174>>

\* C14: the boot sector goes to protected mode in the strict order clear
\* interrupts, enable A20, load GDTR, set CR0.PE, far jump through the code
\* selector: interrupts are disabled while the keyboard-controller sequence
\* of enable_a20 runs, GDTR is loaded only after A20 is enabled, PE is set
\* only after GDTR is loaded, and the far jump comes after PE is set.
C14_AsClaimed ==
  [][InBootSector =>
       /\ io' # io => reg.IFlag = 0
       /\ reg'.gdtr # reg.gdtr => reg.IFlag = 0 /\ A20SequenceDone
       /\ ~ProtectionEnabled /\ ProtectionEnabled'
            => /\ reg.IFlag = 0
               /\ A20SequenceDone
               /\ reg.gdtr = "gdt_descriptor"
       /\ reg'.cs # reg.cs => ProtectionEnabled]_vars

\* The port operations of io other than reads of the 8042 status port.
IsStatusRead(e) == e[1] = "in" /\ e[2] = KBC_STATUS
ControllerOps == SelectSeq(io, LAMBDA e : ~IsStatusRead(e))

\* The sequence enable_a20 issues, with v the byte read from port 0x60 and w
\* the byte written to it.
A20Sequence(v, w) ==
  << <<"out", KBC_STATUS, 173>>, <<"out", KBC_STATUS, 208>>,
     <<"in", KBC_DATA, v>>, <<"out", KBC_STATUS, 209>>,
     <<"out", KBC_DATA, w>>, <<"out", KBC_STATUS, 174>> >>

\* The operation at place n of io comes right after a read of the status
\* port that showed the given bit with the given value.
PolledBefore(n, bit, value) ==
  /\ n > 1
  /\ IsStatusRead(io[n - 1])
  /\ Bit(io[n - 1][3], bit) = value

\* C15: enable_a20 issues 0xAD to port 0x64, 0xD0 to 0x64, a read of 0x60,
\* 0xD1 to 0x64, a write to 0x60 and 0xAE to 0x64, in this order; each write
\* follows a read of status port 0x64 with bit 1 clear, the read of 0x60
\* follows a status read with bit 0 set, and the byte written to 0x60 is the
\* byte read from 0x60 with bit 1 set and the other bits as they were.
C15_A20Protocol ==
  InBootSector =>
    /\ Len(ControllerOps) <= 6
    /\ LET v == IF Len(ControllerOps) >= 3 THEN ControllerOps[3][3] ELSE 0
           w == IF Len(ControllerOps) >= 5 THEN ControllerOps[5][3] ELSE 0
       IN /\ ControllerOps = SubSeq(A20Sequence(v, w), 1, Len(ControllerOps))
          /\ Len(ControllerOps) >= 5 =>
               /\ Bit(w, 1) = 1
               /\ \A b \in 0..7 : b # 1 => Bit(w, b) = Bit(v, b)
    /\ \A n \in DOMAIN io :
         /\ io[n][1] = "out" => PolledBefore(n, 1, 0)
         /\ io[n][1] = "in" /\ io[n][2] = KBC_DATA => PolledBefore(n, 0, 1)

\* enable_a20 has returned after the whole sequence; the output port had the
\* A20 bit clear and now has it set.
C15_Witness ==
  /\ pc \in {B(46), A(85)}
  /\ ControllerOps = A20Sequence(221, 223)
  /\ kbc.a20 = 1

\* The instruction at pc uses the stack, copies memory or jumps to the kernel.
StackOps == {"call", "push", "pop", "pusha", "popa", "ret"}

UsesStackOrMemory ==
  \/ NextOp \in StackOps
  \/ NextOp = "rep_movsb"
  \/ NextOp = "jmp" /\ Instr[2][1] \in KernelFiles

FlatSegments ==
  /\ reg.ds = DATA_SEG /\ reg.es = DATA_SEG /\ reg.fs = DATA_SEG
  /\ reg.gs = DATA_SEG /\ reg.ss = DATA_SEG

\* ESP was set to 0x90000 and has since moved only by what is on the stack.
StackAtTop == reg.esp + StackBytes(stack) = STACK_TOP

\* C16: after the far jump the protected-mode entry code loads DS, ES, FS, GS
\* and SS with the flat data selector 0x10 and sets ESP to 0x90000 before any
\* call, push, memory copy or jump to the kernel: no stack operation happens
\* in protected mode while SS or ESP hold real-mode values.
C16_SegmentsAndStackFirst ==
  /\ [](InBootSector /\ Protected(reg) /\ UsesStackOrMemory
          => FlatSegments /\ StackAtTop)
  /\ [][InBootSector /\ Protected(reg) /\ stack' # stack /\ stack' # <<>>
          => FlatSegments /\ StackAtTop]_vars

\* The first call in protected mode has pushed its return address below
\* 0x90000.
C16_Witness ==
  /\ pc = A(203)
  /\ Protected(reg)
  /\ FlatSegments
  /\ reg.esp = STACK_TOP - 4
  /\ Len(stack) = 1

\* What the running (or last) activation of the handler did on the ports:
\* io starts empty at the gate.
IsDataRead(e) == e[1] = "in" /\ e[2] = KBC_DATA
IsMasterEoi(e) == e = <<"out", PIC1_COMMAND, PIC_EOI>>
IsSlaveWrite(e) == e[1] = "out" /\ e[2] \in {PIC2_COMMAND, PIC2_DATA}

DataReads == Cardinality({n \in DOMAIN io : IsDataRead(io[n])})
MasterEois == Cardinality({n \in DOMAIN io : IsMasterEoi(io[n])})

\* One read of port 0x60, then the decoder, then one EOI to the master and
\* none to the slave.
OneReadThenOneEoi ==
  /\ DataReads <= 1
  /\ MasterEois <= 1
  /\ \A n \in DOMAIN io : ~IsSlaveWrite(io[n])
  /\ \A n \in DOMAIN io :
       IsMasterEoi(io[n]) =>
         /\ n = 2
         /\ IsDataRead(io[1])
         /\ scancode = io[1][3]
  /\ InHandler /\ pc \in {I(141), I(142)} =>
       io = << <<"in", KBC_DATA, scancode>>, <<"out", PIC1_COMMAND, PIC_EOI>> >>

\* The decoder runs on the byte the handler has read, before any EOI.
DecoderGetsTheByte ==
  nEvents' # nEvents =>
    /\ InHandler
    /\ io = << <<"in", KBC_DATA, scancode'>> >>
    /\ io' = io

\* C17 as stated: for every keyboard interrupt keyboard_handler reads one byte
\* from port 0x60, passes it to the decoder and then sends the EOI once to
\* the master PIC and never to the slave; every invocation of the handler
\* eventually sends this EOI, whatever key or command line was entered.
C17_AsClaimed ==
  /\ []OneReadThenOneEoi
  /\ [][DecoderGetsTheByte]_vars
  /\ (InHandler ~> MasterEois = 1)

\* C17, amended: the same reads, decoding and single EOI to the master; an
\* invocation sends the EOI when the decoder returns.  An invocation whose
\* line dispatches panic, shutdown or reboot stops the machine inside the
\* decoder: it never returns and sends no EOI.
C17_EoiWhenDecoderReturns ==
  /\ []OneReadThenOneEoi
  /\ [][DecoderGetsTheByte]_vars
  /\ (InHandler ~> (MasterEois = 1 \/ cpu # "running"))
  /\ [](cpu # "running" =>
          /\ cmd \in {"panic", "shutdown", "reboot"}
          /\ InHandler
          /\ pc = I(185)
          /\ MasterEois = 0)

\* Enter has dispatched a line, the decoder has returned and the EOI is sent.
C17_Witness ==
  /\ InHandler
  /\ pc = I(142)
  /\ io = << <<"in", KBC_DATA, KEY_ENTER>>, <<"out", PIC1_COMMAND, PIC_EOI>> >>
  /\ Len(dispatched) = 1
  /\ cpu = "running"

\* Activations of keyboard_interrupt_wrapper: interrupt frames on the stack.
Activations == Cardinality({n \in DOMAIN stack : stack[n].k = "frame"})

\* C18: the keyboard handler is never re-entered: at most one activation of
\* keyboard_interrupt_wrapper exists at any time, the interrupt flag is clear
\* from the entry through the gate until iret, and nothing the handler calls
\* (decoder, dispatcher, each shell command) sets it.
C18_HandlerNotReentered ==
  /\ [](/\ Activations <= 1
        /\ entries = Activations
        /\ InHandler => reg.IFlag = 0)
  /\ [][InHandler /\ reg'.IFlag = 1 => NextOp = "iret" /\ ~InHandler']_vars

\* A second key has raised IRQ1 and the first activation has sent its EOI:
\* the 8259 requests the interrupt while the handler still runs.
C18_Witness ==
  /\ InHandler
  /\ cpu = "running"
  /\ pic_requests(pic.master, KEYBOARD_IRQ)
  /\ reg.IFlag = 0

\* The keyboard state: the static variables of interrupts.c behind the
\* modifier flags and the line buffer.
KeyboardState == <<flags, input_buffer, input_index>>

\* C19: the modifier flags, input_buffer and input_index are read and written
\* only inside the keyboard handler's call chain; kernel_main, in its
\* initialisation and its idle loop, neither reads nor writes them.
C19_OnlyHandlerTouchesKeyboardState ==
  /\ [](accessed \subseteq {"handler"})
  /\ [][KeyboardState' # KeyboardState => InHandler /\ InHandler']_vars
  /\ [][accessed' # accessed => InHandler /\ NextOp = "handle_keyboard_input"]_vars

\* The handler has typed a character into the buffer and returned; the main
\* flow is back in the idle loop of kernel_main.
C19_Witness ==
  /\ accessed = {"handler"}
  /\ ~InHandler
  /\ pc \in {K(331), K(332)}
  /\ input_index = 1

\* C20: the dispatcher receives a read-only snapshot of the terminated line,
\* never a handle into the live buffer: no step of process_command (trimming,
\* tokenizing, running a command) modifies a byte of input_buffer, so the
\* buffer when dispatch returns is the buffer dispatch was invoked with, the
\* typed line with its terminating NUL.
C20_AsClaimed ==
  [][Len(dispatched') > Len(dispatched) =>
       /\ cmd_writes' = {}
       /\ input_buffer' = [input_buffer EXCEPT ![input_index] = NUL]]_vars

\* The panic command was dispatched and the CPU sits in kernel_panic.
Panicked == cmd = "panic" /\ cpu = "halted"

\* What the screen has received since the Enter that dispatched panic: the
\* newline of Enter and the banner with the default message.
PanicBanner ==
  <<NL, NL>> \o Str(<<"K", "E", "R", "N", "E", "L", " ", "P", "A", "N", "I",
                      "C", ":", " ">>)
  \o Str(<<"U", "s", "e", "r", "-", "r", "e", "q", "u", "e", "s", "t", "e",
           "d", " ", "p", "a", "n", "i", "c", " ", "f", "o", "r", " ", "t",
           "e", "s", "t", "i", "n", "g">>)
  \o <<NL>> \o Str(<<"S", "y", "s", "t", "e", "m", " ", "h", "a", "l", "t",
                     "e", "d", ".">>) \o <<NL>>

\* C21: once the panic command is dispatched, kernel_panic paints the banner
\* and the CPU is halted for good: control does not return to the decoder,
\* the prompt is not redrawn, and no later keyboard event changes the line
\* buffer, the modifier flags or the screen.
C21_PanicHaltsForGood ==
  /\ [](cmd = "panic" =>
          /\ cpu = "halted"
          /\ sink = PanicBanner
          /\ prompts = 0
          /\ InHandler
          /\ pc = I(185)
          /\ reg.IFlag = 0)
  /\ [][Panicked =>
          /\ Panicked'
          /\ UNCHANGED <<flags, input_buffer, input_index, sink, prompts,
                         clears, dispatched, nEvents, pc, entries>>]_vars

\* After the panic a key was pressed: its byte waits in the 8042 and IRQ1 is
\* raised, and nothing takes it.
C21_Witness ==
  /\ Panicked
  /\ arrived = 2
  /\ kbc.obf = 1
  /\ Bit(pic.master.irr, KEYBOARD_IRQ) = 1

\* C22: exhaustion of the allocator calls the panic routine: whenever a
\* kmalloc request cannot be satisfied from what is left of the heap,
\* kernel_panic is invoked and the system halts.
C22_AsClaimed ==
  refused > 0 => cpu = "halted" /\ Len(sink) >= Len(PanicBanner)

(***************************************************************************)
(* SpecA20: the boot sector alone, up to its jump into the kernel, with a   *)
(* CPU that goes on executing.  Nothing makes the 8042 take the byte        *)
(* written to it: KbcTakes is under no fairness condition.                 *)
(***************************************************************************)
BootSectorStep ==
  /\ InBootSector
  /\ (Cli \/ Sti \/ Mov \/ MovReg \/ Or \/ Test \/ Jump \/ Jcc \/ BiosInt
      \/ Call \/ Ret \/ Push \/ Pop \/ Pusha \/ Popa \/ In \/ Out \/ Lgdt
      \/ JmpFar \/ Hlt \/ Stmt \/ RepMovsb \/ BiosTimer)

NextA20 == BootSectorStep \/ KbcTakes

SpecA20 == InitBoot /\ [][NextA20]_vars /\ WF_vars(BootSectorStep)

\* The CPU is in one of the polling loops of enable_a20.
InWaitLoop ==
  \/ pc[1] = "boot.asm" /\ pc[2] \in 104..113
  \/ pc[1] = "aux-boot.asm" /\ pc[2] \in 124..133

\* Protected mode is entered: PE is set and the far jump is taken.
InProtectedMode == Protected(reg) /\ pc \in {B(119), A(181)}

\* enable_a20 is entered.
EntersEnableA20 == pc \in {B(75), A(95)}

\* C23: the A20 sequence has no timeout.  If from some point on the 8042
\* never reports its input buffer empty, or if it never reports its output
\* buffer full, the boot sector that has entered enable_a20 stays in a
\* polling loop for ever and CR0.PE is never set; if the 8042 reports its
\* input buffer empty again after each byte written to it, enable_a20
\* returns and protected mode is entered.  No step sets CR0.PE while a byte
\* written to the 8042 is still in its input buffer.
C23_A20HasNoTimeout ==
  /\ [][~ProtectionEnabled /\ ProtectionEnabled' => kbc.ibf = 0]_vars
  /\ <>[](kbc.ibf = 1) => <>[]InWaitLoop /\ []~ProtectionEnabled
  /\ [](kbc.obf = 0) =>
       [](EntersEnableA20 => <>[]InWaitLoop) /\ []~ProtectionEnabled
  /\ (kbc.ibf = 1 ~> kbc.ibf = 0) => (EntersEnableA20 ~> InProtectedMode)

\* The boot sector has polled a busy 8042 and is about to poll again.
C23_Witness ==
  /\ pc \in {B(106), A(126)}
  /\ kbc.ibf = 1
  /\ reg.ZF = 0
  /\ ~ProtectionEnabled

\* What GDTR holds: the size and the table of the gdt_descriptor of the boot
\* sector that ran lgdt, or what the BIOS left.
Gdtr ==
  IF reg.gdtr = "gdt_descriptor" /\ InBootSector
  THEN gdt_descriptor(pc[1])
  ELSE [size |-> 0, address |-> <<>>]

\* The eight bytes of the descriptor at a selector, and its access byte.
DescriptorAt(selector) == SubSeq(Gdtr.address, selector + 1, selector + 8)
AccessByte(selector) == DescriptorAt(selector)[6]

\* Present, privilege level 0, code or data segment, executable or not.
PresentRing0(selector, executable) ==
  /\ selector + 7 <= Gdtr.size
  /\ Bit(AccessByte(selector), 7) = 1
  /\ (AccessByte(selector) \div 32) % 4 = 0
  /\ Bit(AccessByte(selector), 4) = 1
  /\ Bit(AccessByte(selector), 3) = executable

GdtAsRequired ==
  /\ reg.gdtr = "gdt_descriptor"
  /\ Gdtr.size = Len(Gdtr.address) - 1
  /\ \A n \in 1..8 : DescriptorAt(0)[n] = 0
  /\ PresentRing0(CODE_SEG, 1)
  /\ PresentRing0(DATA_SEG, 0)

SegmentRegisters == {"ds", "es", "fs", "gs", "ss"}

\* C24: in both boot sectors, when CR0.PE is set and from then on through
\* the far jump and the segment reloads, interrupts are disabled and GDTR
\* holds the address and size of a GDT whose entry 0 is all zero and whose
\* entries at selectors 0x08 and 0x10 are present ring-0 code and data
\* descriptors; the far jump loads cs with 0x08 and the data segment
\* registers are loaded with 0x10.
C24_GdtReadyAtSwitch ==
  /\ [](InBootSector /\ ProtectionEnabled => reg.IFlag = 0 /\ GdtAsRequired)
  /\ [][InBootSector /\ ProtectionEnabled' =>
          /\ ~ProtectionEnabled => reg.IFlag = 0 /\ GdtAsRequired
          /\ reg'.cs # reg.cs => Fetch("jmpf") /\ reg'.cs = CODE_SEG
          /\ \A s \in SegmentRegisters :
               reg'[s] # reg[s] => Protected(reg) /\ reg'[s] = DATA_SEG]_vars

\* The segment reloads are done in protected mode with interrupts off.
C24_Witness ==
  /\ pc \in {B(127), A(189)}
  /\ Protected(reg)
  /\ FlatSegments
  /\ reg.IFlag = 0
  /\ GdtAsRequired

\* Handler addresses tried with set_idt_entry: the ends of each half, the
\* wrapper, and the largest below 2^31.
HandlerAddresses ==
  {0, 1, 65535, 65536, 65537, WrapperAddress, 16777216, 2147418112,
   2147483647}

GateNumbers == {0, KEYBOARD_VECTOR, IDT_SIZE - 1}

\* set_idt_entry on the table as it is stores halves that recombine to the
\* handler address.
HalvesRecombine ==
  \A n \in GateNumbers, h \in HandlerAddresses :
    LET g == set_idt_entry(idt, n, h, CODE_SEG, 142)[n]
    IN /\ g.offset_low \in 0..65535
       /\ g.offset_high \in 0..65535
       /\ BitOr(g.offset_low, g.offset_high * 65536) = h

\* The kernel runs with interrupts enabled.
KernelTakesInterrupts == pc[1] \in KernelFiles /\ reg.IFlag = 1

\* C25: the one installed gate is consistent with the rest of the setup.
\* For every handler address set_idt_entry stores halves such that
\* offset_low | (offset_high << 16) is the address; once the IDT is loaded
\* gate 33 holds the address of keyboard_interrupt_wrapper, selector 0x08,
\* which is the code selector the boot sector loaded into cs, and attribute
\* 0x8E (present, ring 0, interrupt gate); and when the kernel takes
\* interrupts 33 is the vector offset of the master PIC plus the keyboard
\* IRQ number.
C25_GateConsistent ==
  /\ HalvesRecombine
  /\ reg.idtr.base = "idt" =>
       LET g == idt[KEYBOARD_VECTOR]
       IN /\ BitOr(g.offset_low, g.offset_high * 65536) = WrapperAddress
          /\ CodeAt(GateOffset(g)) = I(139)
          /\ g.selector = CODE_SEG
          /\ g.selector = reg.cs
          /\ g.type_attr = 142
          /\ GatePresent(g)
          /\ (g.type_attr \div 32) % 4 = 0
          /\ GateClearsIF(g)
  /\ KernelTakesInterrupts =>
       /\ pic.master.base = 32
       /\ KEYBOARD_VECTOR = pic.master.base + KEYBOARD_IRQ

\* A key's interrupt has gone through gate 33 into the wrapper.
C25_Witness ==
  /\ reg.idtr.base = "idt"
  /\ pc = I(139)
  /\ entries = 1
  /\ pic.master.isr = 2
  /\ GateOffset(idt[KEYBOARD_VECTOR]) = WrapperAddress

\* The bytes written to the ports of the two 8259s, in order.
PicWrites ==
  SelectSeq(io, LAMBDA e : e[1] = "out" /\ IsPicPort(e[2]))

\* ICW1 to ICW4 for both controllers, then the mask bytes.
IcwWords ==
  << <<"out", PIC1_COMMAND, 17>>, <<"out", PIC2_COMMAND, 17>>,
     <<"out", PIC1_DATA, 32>>, <<"out", PIC2_DATA, 40>>,
     <<"out", PIC1_DATA, 4>>, <<"out", PIC2_DATA, 2>>,
     <<"out", PIC1_DATA, 1>>, <<"out", PIC2_DATA, 1>> >>

MaskBytes ==
  << <<"out", PIC1_DATA, 255>>, <<"out", PIC2_DATA, 255>>,
     <<"out", PIC1_DATA, 253>> >>

\* A controller is in the middle of its initialisation sequence.
Initialising(p) == p.icw # 0

\* init_pic runs, or has just returned to init_interrupts; io is then the log
\* of the port operations since the boot.
InInitPic ==
  \/ pc[1] = "interrupts.c" /\ pc[2] \in 100..125
  \/ pc = I(177)

\* C26: init_pic writes the initialisation words in the order the PICs
\* require: ICW1 0x11 to ports 0x20 and 0xA0, ICW2 0x20 to 0x21 and 0x28 to
\* 0xA1, ICW3 0x04 to 0x21 and 0x02 to 0xA1, ICW4 0x01 to both data ports,
\* and only then the mask bytes; no mask byte is written while a controller
\* still expects an initialisation word.
C26_IcwOrder ==
  LET n == IF Len(PicWrites) < 11 THEN Len(PicWrites) ELSE 11
  IN InInitPic =>
     /\ pc = I(177) => n = 11
     /\ SubSeq(PicWrites, 1, n) = SubSeq(IcwWords \o MaskBytes, 1, n)
     /\ Len(PicWrites) \in 1..7 =>
          Initialising(pic.master) \/ Initialising(pic.slave)
     /\ Len(PicWrites) >= 8 =>
          /\ ~Initialising(pic.master) /\ ~Initialising(pic.slave)
          /\ pic.master.base = 32 /\ pic.slave.base = 40
     /\ \A k \in 1..n :
          PicWrites[k] \in {MaskBytes[m] : m \in DOMAIN MaskBytes} => k > 8

\* init_pic has returned: all eleven bytes are written.
C26_Witness ==
  /\ pc = I(177)
  /\ PicWrites = IcwWords \o MaskBytes
  /\ pic.master.mask = 253
  /\ pic.slave.mask = 255

\* C27: a Backspace press with input_index = n > 0 sets input_index to
\* n - 1, leaves input_buffer[0 .. n-2] as it was and writes the three
\* characters backspace, space, backspace to the output, in this order; it
\* dispatches nothing, and does so whatever the modifier flags are, which it
\* leaves as they were.
C27_BackspaceErasesOne ==
  [][(scancode' = KEY_BACKSPACE /\ input_index > 0)
       => /\ input_index' = input_index - 1
          /\ \A i \in 0..(input_index - 2) :
               input_buffer'[i] = input_buffer[i]
          /\ sink' = <<BS, ch_space, BS>>
          /\ dispatched' = <<>>
          /\ cmd' = "none"
          /\ prompts' = 0
          /\ clears' = 0
          /\ flags' = flags]_vars

\* Backspace pressed on a line of two characters with all four flags set.
C27_Witness ==
  /\ scancode = KEY_BACKSPACE
  /\ pre.input_index = 2
  /\ PreFlags = <<1, 1, 1, 1>>
  /\ input_index = 1
  /\ input_buffer[0] = Ord("h")
  /\ sink = <<BS, ch_space, BS>>

\* The byte just decoded is a release, or the press of a modifier key.
ModifierEvent(sc) == IsRelease(sc) \/ sc \in ModifierCodes

\* C28: modifier events never touch the line.  Every release byte (high bit
\* set) and every press of Shift, Ctrl, Alt or Caps Lock leaves input_buffer
\* and input_index as they were, writes nothing to the output and dispatches
\* nothing; a release changes at most the flag of the released Shift, Ctrl or
\* Alt key, which it clears, and never caps_lock.
C28_ModifierEventsKeepTheLine ==
  [][(nEvents' # nEvents /\ ModifierEvent(scancode'))
       => /\ input_buffer' = input_buffer
          /\ input_index' = input_index
          /\ writes' = {}
          /\ sink' = <<>>
          /\ prompts' = 0
          /\ clears' = 0
          /\ dispatched' = <<>>
          /\ cmd' = "none"
          /\ IsRelease(scancode') =>
               LET code == scancode' - RELEASE_BIT
               IN /\ caps_lock' = caps_lock
                  /\ shift_pressed' # shift_pressed =>
                       code \in {KEY_LSHIFT, KEY_RSHIFT} /\ shift_pressed' = 0
                  /\ ctrl_pressed' # ctrl_pressed =>
                       code = KEY_CTRL /\ ctrl_pressed' = 0
                  /\ alt_pressed' # alt_pressed =>
                       code = KEY_ALT /\ alt_pressed' = 0]_vars

\* Caps Lock is released on a full line while all four flags are set.
C28_Witness ==
  /\ scancode = KEY_CAPS + RELEASE_BIT
  /\ PreFlags = <<1, 1, 1, 1>>
  /\ flags = <<1, 1, 1, 1>>
  /\ input_index = INPUT_BUFFER_SIZE - 1
  /\ sink = <<>>

\* C29: Ctrl-L is a line reset like Ctrl-C: it clears the screen, redraws
\* the prompt, appends nothing, dispatches nothing and leaves the line buffer
\* empty (input_index = 0), so that a following Enter dispatches only what
\* was typed after the Ctrl-L.
C29_AsClaimed ==
  [][(nEvents' # nEvents /\ IsCtrlL(scancode'))
       => /\ clears' = 1
          /\ prompts' = 1
          /\ writes' = {}
          /\ dispatched' = <<>>
          /\ input_index' = 0]_vars

\* A key press that is no modifier, Backspace or Enter and that lies beyond
\* the scancode table or maps to 0 in it.
IsUnmapped(sc) ==
  /\ sc \in 0..(RELEASE_BIT - 1)
  /\ sc \notin ModifierCodes \cup {KEY_BACKSPACE, KEY_ENTER}
  /\ (sc >= TableSize \/ scancode_to_ascii[sc + 1] = NUL)

\* C30: for every key-press scancode that is no modifier, Backspace or Enter
\* and that lies outside the scancode table or maps to 0 in it, the decoder
\* produces no output: input_buffer, input_index and the modifier flags are
\* unchanged, nothing is echoed and nothing is dispatched; and for every one
\* of the 256 scancode bytes each read of scancode_to_ascii is at an index
\* inside the table.
C30_UnmappedKeysDoNothing ==
  [][nEvents' # nEvents =>
       /\ lookups' \subseteq 0..(TableSize - 1)
       /\ IsUnmapped(scancode') =>
            /\ input_buffer' = input_buffer
            /\ input_index' = input_index
            /\ flags' = flags
            /\ writes' = {}
            /\ sink' = <<>>
            /\ prompts' = 0
            /\ clears' = 0
            /\ dispatched' = <<>>
            /\ cmd' = "none"]_vars

\* The last key of the keyboard (0x7F, beyond the table) was pressed with
\* Shift and Ctrl held; no table entry was read.
C30_Witness ==
  /\ scancode = RELEASE_BIT - 1
  /\ pre.shift_pressed = 1
  /\ pre.ctrl_pressed = 1
  /\ lookups = {}
  /\ sink = <<>>
  /\ input_index = pre.input_index

\* kernel_main sits in its halt loop, outside the handler.
Idle == ~InHandler /\ pc \in {K(331), K(332)} /\ cpu = "running"

\* A command has halted or reset the machine inside the decoder.
Stopped == cpu # "running"

\* The handler passes to the decoder the byte the keyboard sent, in the
\* order the bytes were sent.
DecodesWhatArrived ==
  nEvents' # nEvents =>
    /\ InHandler
    /\ nEvents' <= arrived
    /\ io = << <<"in", KBC_DATA, scancode'>> >>

KernelSectors ==
  [drive |-> 0, cylinder |-> 0, head |-> 0, sector |-> 2, count |-> 18,
   to |-> 65536]

\* The one copy of boot.asm: the 18 * 512 bytes read, to the kernel's address.
KernelCopy ==
  [from |-> KernelSectors.to, to |-> kernel_start,
   bytes |-> KernelSectors.count * 512, flat |-> TRUE]

SectorsRead == ram.disk = <<KernelSectors>>
JumpsToKernel == InBootSector /\ pc'[1] \in KernelFiles

\* C32: the boot sector enters the kernel, at its entry at 0x100000, only
\* when the BIOS has read 18 sectors to 0x10000 without error, then
\* enable_a20 has run and the gate is open, then protection was enabled and
\* the segment registers reloaded, and then exactly 0x2400 bytes, as many as
\* were read, were copied from 0x10000 to 0x100000, once.
C32_KernelEntryAfterLoad ==
  /\ [][JumpsToKernel =>
          /\ pc' = K(292)
          /\ SectorsRead
          /\ A20SequenceDone /\ kbc.a20 = 1
          /\ Protected(reg) /\ FlatSegments
          /\ ram.copy = <<KernelCopy>>
          /\ KernelCopy.bytes = 9216]_vars
  /\ [][pc[1] = "boot.asm" /\ io' # io => SectorsRead]_vars
  /\ [][pc[1] = "boot.asm" /\ ~ProtectionEnabled /\ ProtectionEnabled' =>
          SectorsRead /\ A20SequenceDone /\ kbc.a20 = 1]_vars
  /\ [][ram.copy' # ram.copy =>
          /\ ram.copy = <<>> /\ SectorsRead /\ kbc.a20 = 1
          /\ Protected(reg) /\ FlatSegments]_vars

C32_Witness ==
  /\ pc = K(292)
  /\ ram.copy = <<KernelCopy>>
  /\ SectorsRead
  /\ entries = 0

(***************************************************************************)
(* SpecAlloc: kmalloc and kfree called directly, any number of times up to *)
(* MaxCalls, with sizes over the whole range of size_t.                    *)
(***************************************************************************)
MaxCalls == 3

\* 0x80000000 and 0xFFFFFFFF.
HalfRange == <<32768, 0>>
SIZE_MAX == <<65535, 65535>>

\* Sizes around each boundary: none, unaligned, the whole heap and one more,
\* half the range of size_t and the sizes around it that the heap at its
\* start does or does not hold "within 2^31", and sizes whose sum with
\* heap_current passes 2^32.
Sizes ==
  { size_t(0), size_t(1), size_t(100), size_t(heap_end - heap_start),
    size_t(heap_end - heap_start + 1), HalfRange,
    Add32(size_t(heap_end - heap_start - 1), HalfRange),
    Add32(size_t(heap_end - heap_start), HalfRange),
    <<65535 - heap_start \div 65536, 65535>>,
    <<65536 - heap_start \div 65536, 0>>,
    SIZE_MAX }

InitAlloc ==
  /\ InitWith(<<>>, NoFlags)
  /\ held = {}
  /\ BootedMachine
  /\ heap_current \in {heap_start, kmalloc(heap_start, size_t(100)).heap_current}
  /\ refused = 0
  /\ calls = <<>>

\* ptr = kmalloc(size);
KmallocCall ==
  \E size \in Sizes :
    LET r == kmalloc(heap_current, size)
    IN /\ Len(calls) < MaxCalls
       /\ heap_current' = r.heap_current
       /\ refused' = IF r.ptr = NULL THEN refused + 1 ELSE refused
       /\ calls' = Append(calls, [op |-> "kmalloc", size |-> size,
                                  ptr |-> r.ptr, before |-> heap_current,
                                  after |-> r.heap_current])
       /\ UNCHANGED <<flags, input_buffer, input_index, effects, history,
                      machine>>

\* kfree(ptr); with a pointer kmalloc returned, or NULL.
KfreeCall ==
  \E ptr \in {NULL} \cup {calls[i].ptr : i \in DOMAIN calls} :
    /\ Len(calls) < MaxCalls
    /\ heap_current' = kfree(heap_current, ptr)
    /\ calls' = Append(calls, [op |-> "kfree", size |-> size_t(0),
                               ptr |-> ptr, before |-> heap_current,
                               after |-> kfree(heap_current, ptr)])
    /\ UNCHANGED <<refused, flags, input_buffer, input_index, effects,
                   history, machine>>

NextAlloc == KmallocCall \/ KfreeCall
SpecAlloc == InitAlloc /\ [][NextAlloc]_vars

\* What was left of the heap when the call c was made.
Remaining(c) == size_t(heap_end - c.before)

\* A request that exceeds what is left, and one that fits it or exceeds it
\* by less than 2^31.
Exceeds(c) == c.op = "kmalloc" /\ Above32(c.size, Remaining(c))
WithinHalfRange(c) ==
  c.op = "kmalloc" => Above32(Add32(Remaining(c), HalfRange), c.size)
Granted(c) == c.op = "kmalloc" /\ ~Exceeds(c)

\* C33: after kmalloc and kfree calls with sizes that fit what is left of
\* the heap or exceed it by less than 2^31, heap_current is in heap_start ..
\* heap_end, a multiple of 4, and no call has decreased it; the regions of
\* the requests that fit are pairwise disjoint and inside the heap; a
\* request that does not fit returned NULL and left heap_current as it was;
\* kfree changed nothing.
C33_BumpAllocator ==
  (\A i \in DOMAIN calls : WithinHalfRange(calls[i])) =>
    /\ heap_current \in heap_start..heap_end
    /\ heap_current % 4 = 0
    /\ \A i \in DOMAIN calls :
         LET c == calls[i]
         IN /\ c.after >= c.before
            /\ Granted(c) =>
                 /\ c.ptr >= heap_start
                 /\ c.ptr + Number(c.size) <= heap_end
                 /\ \A j \in DOMAIN calls :
                      i < j /\ Granted(calls[j]) =>
                        c.ptr + Number(c.size) <= calls[j].ptr
            /\ Exceeds(c) => c.ptr = NULL /\ c.after = c.before
            /\ c.op = "kfree" => c.after = c.before

C33_Witness ==
  /\ Len(calls) = 3
  /\ calls[1].op = "kmalloc" /\ calls[1].size = size_t(1)
  /\ calls[1].ptr = heap_start /\ calls[1].after = heap_start + 4
  /\ calls[2].op = "kmalloc" /\ calls[2].size = HalfRange
  /\ calls[2].ptr = NULL
  /\ calls[3].op = "kfree" /\ calls[3].ptr = heap_start
  /\ heap_current = heap_start + 4

\* C39: kmalloc refuses every request larger than what is left of the heap,
\* for every size in 0 .. 2^32 - 1: it returns NULL and leaves heap_current
\* as it was, also when heap_current + size passes 2^32.
C39_AsClaimed ==
  \A i \in DOMAIN calls :
    Exceeds(calls[i]) => calls[i].ptr = NULL /\ calls[i].after = calls[i].before

(***************************************************************************)
(* The terminal of kernel.c.  A terminal state t is a record of the        *)
(* variables terminal_row (row), terminal_column (column), vga, at, arg    *)
(* and written.                                                            *)
(***************************************************************************)
Terminal ==
  [row |-> terminal_row, column |-> terminal_column, vga |-> vga, at |-> at,
   arg |-> arg, written |-> written]

\* F applied to the value of x.
Of(F(_), x) == CHOOSE r \in {F(v) : v \in {x}} : TRUE

\* terminal_buffer[index] = vga_entry(c, color);
Store(v, index, c) ==
  [i \in DOMAIN v \cup {index} |-> IF i = index THEN c ELSE v[i]]

terminal_putentryat(t, c, x, y) ==
  LET index == y * VGA_WIDTH + x
  IN [t EXCEPT !.vga = Store(@, index, c), !.written = @ \cup {index}]

\* terminal_scroll: every line takes the cells of the line below it, and the
\* last line is cleared.  A cell outside the 25 lines stays as it is.
terminal_scroll(t) ==
  LET moved == {y * VGA_WIDTH + x : y \in 0..(VGA_HEIGHT - 2),
                                    x \in 0..(VGA_WIDTH - 1)}
      cleared == {(VGA_HEIGHT - 1) * VGA_WIDTH + x : x \in 0..(VGA_WIDTH - 1)}
      kept == {i \in DOMAIN t.vga : i \notin moved \cup cleared}
      filled == {i \in moved : i + VGA_WIDTH \in DOMAIN t.vga}
  IN [t EXCEPT !.vga = [i \in filled \cup kept |->
                          IF i \in filled THEN t.vga[i + VGA_WIDTH]
                          ELSE t.vga[i]],
               !.written = @ \cup moved \cup cleared]

\* Faulty variant of putchar_step: the column is not reset at the end of a
\* line.
putchar_step_no_wrap(t) ==
  CASE t.at = 124 -> [t EXCEPT !.at = IF t.arg = NL THEN 125 ELSE 131]
    [] t.at = 125 -> [t EXCEPT !.column = 0, !.at = 126]
    [] t.at = 126 -> [t EXCEPT !.row = @ + 1,
                               !.at = IF t.row + 1 = VGA_HEIGHT THEN 127 ELSE 0]
    [] t.at = 127 -> [terminal_scroll(t) EXCEPT !.at = 128]
    [] t.at = 128 -> [t EXCEPT !.row = VGA_HEIGHT - 1, !.at = 0]
    [] t.at = 131 -> [terminal_putentryat(t, t.arg, t.column, t.row)
                        EXCEPT !.at = 132]
    [] t.at = 132 -> [t EXCEPT !.column = @ + 1, !.at = 0]
    [] OTHER -> t

\* One statement of terminal_putchar(arg), at the line t.at of kernel.c.
\* ++x == N stores the new x and branches on it.
putchar_step(t) ==
  CASE t.at = 124 -> [t EXCEPT !.at = IF t.arg = NL THEN 125 ELSE 131]
    [] t.at = 125 -> [t EXCEPT !.column = 0, !.at = 126]
    [] t.at = 126 -> [t EXCEPT !.row = @ + 1,
                               !.at = IF t.row + 1 = VGA_HEIGHT THEN 127 ELSE 0]
    [] t.at = 127 -> [terminal_scroll(t) EXCEPT !.at = 128]
    [] t.at = 128 -> [t EXCEPT !.row = VGA_HEIGHT - 1, !.at = 0]
    [] t.at = 131 -> [terminal_putentryat(t, t.arg, t.column, t.row)
                        EXCEPT !.at = 132]
    [] t.at = 132 -> [t EXCEPT !.column = @ + 1,
                               !.at = IF t.column + 1 = VGA_WIDTH THEN 133 ELSE 0]
    [] t.at = 133 -> [t EXCEPT !.column = 0, !.at = 134]
    [] t.at = 134 -> [t EXCEPT !.row = @ + 1,
                               !.at = IF t.row + 1 = VGA_HEIGHT THEN 135 ELSE 0]
    [] t.at = 135 -> [terminal_scroll(t) EXCEPT !.at = 136]
    [] t.at = 136 -> [t EXCEPT !.row = VGA_HEIGHT - 1, !.at = 0]
    [] OTHER -> t

\* terminal_putchar runs to its return.
RECURSIVE putchar_return(_)
putchar_return(t) ==
  IF t.at = 0 THEN t ELSE Of(putchar_return, putchar_step(t))

\* terminal_putchar(c) called and run to its return, whoever calls it: the
\* caller's own position and argument are as before.
putchar(t, c) ==
  LET called == [t EXCEPT !.at = 124, !.arg = c]
      returned(u) == [putchar_return(u) EXCEPT !.at = t.at, !.arg = t.arg]
  IN Of(returned, called)

\* terminal_write: the characters of data, one after the other (the first
\* half of them, then the second half).
RECURSIVE write(_, _)
write(t, data) ==
  IF Len(data) = 0 THEN t
  ELSE IF Len(data) = 1 THEN putchar(t, data[1])
  ELSE LET half == Len(data) \div 2
           rest(u) == write(u, SubSeq(data, half + 1, Len(data)))
       IN Of(rest, write(t, SubSeq(data, 1, half)))

\* terminal_initialize.
initialize(t) ==
  [t EXCEPT !.row = 0, !.column = 0, !.vga = <<>>,
            !.written = @ \cup {y * VGA_WIDTH + x : y \in 0..(VGA_HEIGHT - 1),
                                                   x \in 0..(VGA_WIDTH - 1)}]

(***************************************************************************)
(* SpecTerm: terminal_putchar called with any character, and keys typed,   *)
(* from a screen that terminal_initialize cleared and on which lines and   *)
(* letters were printed.                                                   *)
(***************************************************************************)
MaxPutchars == 3
MaxTermKeys == 2

StartRows == {0, VGA_HEIGHT - 2, VGA_HEIGHT - 1}
StartColumns == {0, VGA_WIDTH - 2, VGA_WIDTH - 1}
TermChars == {NL, BS, Ord("x")}
TermKeys == {ScanOf(Ord("a")), KEY_BACKSPACE, KEY_ENTER}

Repeat(c, n) == [i \in 1..n |-> c]

\* The screen after terminal_initialize, r line feeds and c letters.
StartScreen(r, c) ==
  write(initialize([row |-> 0, column |-> 0, vga |-> <<>>, at |-> 0,
                    arg |-> NUL, written |-> {}]),
        Repeat(NL, r) \o Repeat(Ord("x"), c))

Shows(t) ==
  /\ terminal_row = t.row
  /\ terminal_column = t.column
  /\ vga = t.vga
  /\ at = t.at
  /\ arg = t.arg
  /\ written = t.written

InitTerm ==
  /\ InitWith(<<>>, NoFlags)
  /\ held = {}
  /\ KernelMachine(K(331))
  /\ heap_current = kmalloc(heap_start, size_t(100)).heap_current
  /\ refused = 0
  /\ calls = <<>>
  /\ \E r \in StartRows, c \in StartColumns :
       \E t \in {StartScreen(r, c)} : Shows([t EXCEPT !.written = {}])
  /\ script = <<>>
  /\ shown = <<>>
  /\ puts = <<>>

\* terminal_putchar(c), called with nothing in its way.
Putchar ==
  \E c \in TermChars :
    /\ at = 0
    /\ Len(puts) < MaxPutchars
    /\ \E t \in {putchar([Terminal EXCEPT !.written = {}], c)} :
         /\ terminal_row' = t.row
         /\ terminal_column' = t.column
         /\ vga' = t.vga
         /\ written' = t.written
    /\ puts' = Append(puts, c)
    /\ UNCHANGED <<at, arg, script, shown, hardware, keyboard>>

\* The keyboard interrupt: the handler runs to its end, whatever kernel_main
\* is doing, and what it prints goes through terminal_putchar.
Key ==
  \E sc \in TermKeys :
    /\ nEvents < MaxTermKeys
    /\ Decode(sc)
    /\ \E t \in {write([Terminal EXCEPT !.written = {}], sink')} :
         /\ terminal_row' = t.row
         /\ terminal_column' = t.column
         /\ vga' = t.vga
         /\ written' = t.written
         /\ shown' = Append(shown, [scancode |-> sc, row |-> terminal_row,
                                    column |-> terminal_column,
                                    cells |-> t.written])
    /\ UNCHANGED <<at, arg, script, puts, hardware, held>>

NextTerm == Putchar \/ Key
SpecTerm == InitTerm /\ [][NextTerm]_vars

Cells == 0..(VGA_WIDTH * VGA_HEIGHT - 1)

\* C35: with no call of terminal_putchar interrupted, after
\* terminal_initialize and terminal_putchar calls with any characters,
\* terminal_row < 25 and terminal_column < 80 between the calls, and every
\* cell that terminal_putentryat or terminal_scroll wrote has its index in
\* 0..1999.
C35_CursorOnScreen ==
  at = 0 =>
    /\ terminal_row < VGA_HEIGHT
    /\ terminal_column < VGA_WIDTH
    /\ written \subseteq Cells
    /\ VGA_WIDTH * VGA_HEIGHT = 2000

\* The last line was full to its last cell but one; a letter filled it and
\* the screen scrolled.
C35_Witness ==
  /\ puts # <<>>
  /\ puts[Len(puts)] = Ord("x")
  /\ terminal_row = VGA_HEIGHT - 1
  /\ terminal_column = 0
  /\ written = Cells
  /\ (VGA_HEIGHT - 2) * VGA_WIDTH + VGA_WIDTH - 1 \in DOMAIN vga

\* C37: a printable character typed and then Backspace leave the screen as
\* it was: the cursor is where it was before the character was typed, and
\* the cell the character occupied shows a space.
C37_AsClaimed ==
  LET n == Len(shown)
      typed == shown[n - 1]
      cell == typed.row * VGA_WIDTH + typed.column
  IN (/\ n >= 2
      /\ puts = <<>>
      /\ typed.scancode = ScanOf(Ord("a"))
      /\ shown[n].scancode = KEY_BACKSPACE) =>
       /\ terminal_row = typed.row
       /\ terminal_column = typed.column
       /\ cell \in DOMAIN vga => vga[cell] = Ord(" ")

(***************************************************************************)
(* SpecPreempt: kernel_main prints the end of its last message, one        *)
(* statement of terminal_putchar at a time, and keys are typed meanwhile.  *)
(* The handler runs behind an interrupt gate, so it runs to its end before *)
(* kernel_main goes on.                                                    *)
(***************************************************************************)
\* printf("\nKernel is now running. Press Ctrl+Alt+Del to restart.\n"), of
\* which the last word is still to print.
LastMessage ==
  <<NL>> \o Str(<<"K", "e", "r", "n", "e", "l", " ", "i", "s", " ", "n", "o",
                  "w", " ", "r", "u", "n", "n", "i", "n", "g", ".", " ", "P",
                  "r", "e", "s", "s", " ", "C", "t", "r", "l", "+", "A", "l",
                  "t", "+", "D", "e", "l", " ", "t", "o", " ">>)
Unprinted == Str(<<"r", "e", "s", "t", "a", "r", "t", ".">>) \o <<NL>>

\* The lines kernel_main, init_interrupts and init_shell have printed when
\* the last printf of kernel_main begins.
LinesPrinted == 22

InitPreempt ==
  /\ InitWith(<<>>, NoFlags)
  /\ held = {}
  /\ KernelMachine(K(329))
  /\ heap_current = kmalloc(heap_start, size_t(100)).heap_current
  /\ refused = 0
  /\ calls = <<>>
  /\ \E t \in {write([row |-> LinesPrinted, column |-> 0, vga |-> <<>>,
                      at |-> 0, arg |-> NUL, written |-> {}], LastMessage)} :
       Shows([t EXCEPT !.written = {}])
  /\ script = Unprinted
  /\ shown = <<>>
  /\ puts = <<>>

\* kernel_main calls terminal_putchar with the next character.
MainCall ==
  /\ pc = K(329)
  /\ at = 0
  /\ script # <<>>
  /\ arg' = Head(script)
  /\ script' = Tail(script)
  /\ at' = 124
  /\ written' = {}
  /\ UNCHANGED <<terminal_row, terminal_column, vga, shown, puts, hardware,
                 keyboard>>

\* kernel_main executes one statement of terminal_putchar.
MainStep ==
  /\ at # 0
  /\ \E t \in {putchar_step(Terminal)} :
       /\ terminal_row' = t.row
       /\ terminal_column' = t.column
       /\ vga' = t.vga
       /\ at' = t.at
       /\ written' = t.written
  /\ UNCHANGED <<arg, script, shown, puts, hardware, keyboard>>

\* The last printf has returned: kernel_main goes to its idle loop.
MainReturns ==
  /\ pc = K(329)
  /\ at = 0
  /\ script = <<>>
  /\ pc' = K(331)
  /\ UNCHANGED <<build, reg, stack, local, kbc, pic, idt, idtp, io, arrived,
                 accessed, entries, ram, screen, keyboard>>

NextPreempt == MainCall \/ MainStep \/ MainReturns \/ Key
SpecPreempt == InitPreempt /\ [][NextPreempt]_vars

\* C34: at every entry to the keyboard handler, also when the interrupt
\* comes inside a terminal_putchar of kernel_main, terminal_column < 80 and
\* terminal_row < 25, and no echo of the handler is written outside the
\* 80 x 25 cells.
C34_AsClaimed ==
  \A i \in DOMAIN shown :
    /\ shown[i].row < VGA_HEIGHT
    /\ shown[i].column < VGA_WIDTH
    /\ shown[i].cells \subseteq Cells

\* The keys that are down: the modifiers held since the initial state and the
\* key of the stroke under way.
KeysDown == held \cup (IF NoKeyDown THEN {} ELSE {scancode})

\* C36: after any presses and releases of the two Shift keys, shift_pressed
\* is 1 exactly when at least one of them is down; the release of one Shift
\* key while the other is down does not clear it.
C36_AsClaimed ==
  shift_pressed = 1 <=> KeysDown \cap {KEY_LSHIFT, KEY_RSHIFT} # {}

\* The BIOS has refused the disk read; the boot sector has halted after that.
DiskError == ram.failed > 0
HaltedAfterError == DiskError /\ reg.hlt

\* C38: when the BIOS disk read reports an error, the boot sector prints the
\* disk error message and halts, and then it stays halted for ever: it
\* executes no instruction after the hlt although interrupts are enabled,
\* and it never enables A20, never sets CR0.PE and never jumps to the
\* kernel.
C38_AsClaimed ==
  /\ DiskError ~> HaltedAfterError
  /\ [](HaltedAfterError =>
          reg.IFlag = 1 /\ ram.tty = <<"loading_msg", "error_msg">>)
  /\ [][HaltedAfterError => HaltedAfterError' /\ pc' = pc]_vars
  /\ [](DiskError =>
          io = <<>> /\ ~ProtectionEnabled /\ pc[1] = "boot.asm")

\* The line in the buffer is empty or holds nothing but spaces and tabs.
BlankLine == \A i \in DOMAIN BufferLine : IsBlank(BufferLine[i])

\* C40: Enter on an empty line, or on a line of spaces and tabs only, runs no
\* command: process_command is called and returns without a command chosen
\* and without a message, the output is the newline and the prompt, and
\* input_index is 0 afterwards.
C40_BlankLineRunsNothing ==
  [][(scancode' = KEY_ENTER /\ BlankLine) =>
       /\ Len(dispatched') = 1
       /\ cmd' = "none"
       /\ cpu' = "running"
       /\ sink' = <<NL>> \o Str(<<"M", "y", "O", "S", "$", " ">>)
       /\ prompts' = 1
       /\ input_index' = 0]_vars

\* Enter after a space and a tab, and after a space typed on top of them.
C40_Witness ==
  /\ scancode = KEY_ENTER
  /\ pre.input_index = 3
  /\ dispatched = <<<<ch_space, TAB, ch_space>>>>
  /\ cmd = "none"
  /\ input_index = 0

====
